---- MODULE Spec2Model ----
(***************************************************************************)
(* Model of the RWIS motion-scoring pipeline: the session controller       *)
(* (main.py), the stream adapter (mocopi_adapter.py), the sliding banded   *)
(* DTW (dtw_online.py), the pose / rhythm / grade helpers, and the box     *)
(* decoder and ingest loop of receiver.py.                                 *)
(*                                                                         *)
(* Numbers.  Coordinates are integers plus four marked values: NaN (a      *)
(* non-finite float), Inf (float32 infinity), Huge (a finite Python float  *)
(* that overflows to infinity when converted to float32) and Big (a finite *)
(* float32, from about 1.8e19 on, whose square overflows float32).  Scores *)
(* and costs are fixed-point, in thousandths (Milli).                      *)
(***************************************************************************)
EXTENDS Integers, Sequences, FiniteSets, TLC

\* ------------------------------------------------------------------ bounds
\* config.WINDOW_SIZE is 60; the model runs with a small window.
WINDOW_SIZE == 2
\* Largest number of calls in one behaviour of Spec (any input).
MaxCalls == 2
\* Largest number of calls in one behaviour of SpecSession (well-formed input).
MaxFrames == 4
\* Largest number of datagrams in one behaviour of SpecReceiverLive.
MaxDatagrams == 3
\* Largest length of the buffers handed to compute in SpecFunctions.
MaxBuffer == 3

\* --------------------------------------------------------------- constants
Band == 8
NaN == 2000000001
Inf == 2000000000
Huge == 1999999999
Big == 1999999998
None == -1
Milli == 10 * 100

\* ------------------------------------------------------------ value helpers
Min(a, b) == IF a <= b THEN a ELSE b
Max(a, b) == IF a >= b THEN a ELSE b
Abs(a) == IF a < 0 THEN -a ELSE a
Clip(x, lo, hi) == IF x < lo THEN lo ELSE IF x > hi THEN hi ELSE x

\* np.isfinite on one component
IsFinite(x) == x # NaN /\ x # Inf
AllFinite(v) == \A i \in DOMAIN v : IsFinite(v[i])

\* np.asarray(x, dtype=np.float32) on one component: a double beyond the
\* float32 range becomes infinity, NaN stays NaN.
F32(x) == IF x = Huge THEN Inf ELSE x
F32Vec(v) == [i \in DOMAIN v |-> F32(v[i])]

\* floor(sqrt(n)) for 0 <= n < 2^31, by bisection
RECURSIVE ISqrtBetween(_, _, _)
ISqrtBetween(n, lo, hi) ==
    IF lo >= hi THEN lo
    ELSE LET mid == (lo + hi + 1) \div 2
         IN  IF mid * mid <= n THEN ISqrtBetween(n, mid, hi)
             ELSE ISqrtBetween(n, lo, mid - 1)
ISqrt(n) == ISqrtBetween(n, 0, Min(n, 46340))

\* floor(1000 * sqrt(q)) for a small q >= 0, r being floor(sqrt(q))
RefineSqrt(q, r) ==
    IF r * r = q THEN r * Milli
    ELSE ISqrtBetween(q * Milli * Milli, r * Milli, r * Milli + Milli - 1)
SqrtMilli(q) == RefineSqrt(q, ISqrt(q))

RECURSIVE SumSqDiff(_, _, _)
SumSqDiff(a, b, i) ==
    IF i > Len(a) THEN 0
    ELSE (a[i] - b[i]) * (a[i] - b[i]) + SumSqDiff(a, b, i + 1)

\* float(np.linalg.norm(a - b)) of two finite float32 vectors of equal
\* length, in thousandths.  The norm is sqrt(dot(x, x)) in float32: when one
\* of two components is Big their difference is Big and its square
\* overflows, so the norm is infinity; two Big components cancel.
Dist(a, b) ==
    IF \E i \in DOMAIN a : (a[i] = Big) # (b[i] = Big)
    THEN Inf
    ELSE SqrtMilli(SumSqDiff(a, b, 1))

\* exp(-x) for x >= 0 in thousandths, result in thousandths.
\* exp(-x) = exp(-1)^floor(x) * exp(-frac(x)); the fraction by its
\* alternating Taylor series in millionths.
RECURSIVE ExpFracTerms(_, _, _, _)
ExpFracTerms(f, k, term, acc) ==
    IF term = 0 \/ k > 12 THEN acc
    ELSE LET t == (term * f) \div (Milli * k)
         IN  ExpFracTerms(f, k + 1, t,
                          IF k % 2 = 1 THEN acc - t ELSE acc + t)
ExpNegFrac(f) == ExpFracTerms(f, 1, Milli * Milli, Milli * Milli) \div Milli
RECURSIVE ExpNegWhole(_, _)
ExpNegWhole(n, acc) ==
    IF n = 0 THEN acc ELSE ExpNegWhole(n - 1, (acc * 3679) \div 10000)
ExpNeg(x) ==
    IF x >= 10 * Milli THEN 0
    ELSE ExpNegWhole(x \div Milli, ExpNegFrac(x % Milli))

\* ------------------------------------------------------ dtw_online.SlidingDTW
\* A SlidingDTW object is the record [player_buffer, ref_buffer]; W and band
\* are fixed at construction (main.py: window_size=WINDOW_SIZE, band=8).
NewSlidingDTW == [player_buffer |-> <<>>, ref_buffer |-> <<>>]

\* SlidingDTW.reset
DtwReset(dtw) == [player_buffer |-> <<>>, ref_buffer |-> <<>>]

\* add_frame with an eviction that pops the performer buffer only
AddFramePopsPlayerOnly(dtw, player_feat, ref_feat) ==
    LET d  == Min(Len(player_feat), Len(ref_feat))
        pf == SubSeq(F32Vec(player_feat), 1, d)
        rf == SubSeq(F32Vec(ref_feat), 1, d)
        pb == Append(dtw.player_buffer, pf)
        rb == Append(dtw.ref_buffer, rf)
    IN  IF d = 0 THEN dtw
        ELSE IF ~(AllFinite(pf) /\ AllFinite(rf)) THEN dtw
        ELSE IF Len(pb) > WINDOW_SIZE
             THEN [player_buffer |-> Tail(pb), ref_buffer |-> rb]
             ELSE [player_buffer |-> pb, ref_buffer |-> rb]

\* add_frame with an eviction that pops the newest element: pop() for pop(0)
AddFramePopsNewest(dtw, player_feat, ref_feat) ==
    LET d  == Min(Len(player_feat), Len(ref_feat))
        pf == SubSeq(F32Vec(player_feat), 1, d)
        rf == SubSeq(F32Vec(ref_feat), 1, d)
    IN  IF d = 0 THEN dtw
        ELSE IF ~(AllFinite(pf) /\ AllFinite(rf)) THEN dtw
        ELSE IF Len(dtw.player_buffer) + 1 > WINDOW_SIZE
             THEN dtw
             ELSE [player_buffer |-> Append(dtw.player_buffer, pf),
                   ref_buffer    |-> Append(dtw.ref_buffer, rf)]

\* SlidingDTW.add_frame
AddFrame(dtw, player_feat, ref_feat) ==
    LET d  == Min(Len(player_feat), Len(ref_feat))
        pf == SubSeq(F32Vec(player_feat), 1, d)
        rf == SubSeq(F32Vec(ref_feat), 1, d)
        pb == Append(dtw.player_buffer, pf)
        rb == Append(dtw.ref_buffer, rf)
    IN  IF d = 0 THEN dtw
        ELSE IF ~(AllFinite(pf) /\ AllFinite(rf)) THEN dtw
        ELSE IF Len(pb) > WINDOW_SIZE
             THEN [player_buffer |-> Tail(pb), ref_buffer |-> Tail(rb)]
             ELSE [player_buffer |-> pb, ref_buffer |-> rb]

\* float addition and min with infinity
AddF(a, b) == IF a = Inf \/ b = Inf THEN Inf ELSE a + b
Min3(a, b, c) == Min(a, Min(b, c))

\* the inner loop without the insertion term curr[j - 1]
RECURSIVE DtwRowNoInsertion(_, _, _, _, _, _, _)
DtwRowNoInsertion(pb, rb, i, j, j_end, prev, curr) ==
    IF j > j_end THEN curr
    ELSE LET cost == Dist(pb[i], rb[j])
             cell == AddF(cost, Min(prev[j], prev[j - 1]))
         IN  DtwRowNoInsertion(pb, rb, i, j + 1, j_end, prev,
                               [curr EXCEPT ![j] = cell])

\* the inner loop of compute: cells j..j_end of row i
RECURSIVE DtwRow(_, _, _, _, _, _, _)
DtwRow(pb, rb, i, j, j_end, prev, curr) ==
    IF j > j_end THEN curr
    ELSE LET cost == Dist(pb[i], rb[j])
             cell == AddF(cost, Min3(curr[j - 1], prev[j], prev[j - 1]))
         IN  DtwRow(pb, rb, i, j + 1, j_end, prev,
                    [curr EXCEPT ![j] = cell])

\* the outer loop of compute: rows i..n, two rolling rows
RECURSIVE DtwRows(_, _, _, _, _, _)
DtwRows(pb, rb, band, n, i, prev) ==
    IF i > n THEN prev
    ELSE LET curr    == [k \in 0..n |-> Inf]
             j_start == Max(1, i - band)
             j_end   == Min(n, i + band)
         IN  DtwRows(pb, rb, band, n, i + 1,
                     DtwRow(pb, rb, i, j_start, j_end, prev, curr))

\* player_buffer[i-1] - ref_buffer[j-1] raises when the two shapes do not
\* broadcast: samples added with different dimensions meet in the band
ComputeRaises(dtw, band) ==
    LET pb == dtw.player_buffer
        rb == dtw.ref_buffer
        n  == Len(pb)
    IN  /\ n >= 2
        /\ \E i \in 1..n : \E j \in Max(1, i - band)..Min(n, i + band) :
              Len(pb[i]) # Len(rb[j]) /\ Len(pb[i]) # 1 /\ Len(rb[j]) # 1

\* SlidingDTW.compute, result in thousandths (when it does not raise)
\* the end of compute without the division by the length
NotNormalised(total, n) == IF total = Inf THEN 0 ELSE total

Normalised(total, n) == IF total = Inf THEN 0 ELSE total \div n
Compute(dtw, band) ==
    LET pb == dtw.player_buffer
        rb == dtw.ref_buffer
        n  == Len(pb)
        prev0 == [k \in 0..n |-> IF k = 0 THEN 0 ELSE Inf]
    IN  IF n = 0 THEN 0
        ELSE IF n = 1 THEN Dist(pb[1], rb[1])
        ELSE Normalised(DtwRows(pb, rb, band, n, 1, prev0)[n], n)

\* ------------------------------------------------------------------ utils.py
\* cos(a * pi/2) for a in thousandths of a quarter turn, in 1e-5 units
RECURSIVE CosTerms(_, _, _, _)
CosTerms(x, k, term, acc) ==
    IF term = 0 \/ k > 8 THEN acc
    ELSE LET t1 == (term * x) \div Milli
             t  == ((t1 * x) \div Milli) \div ((2 * k - 1) * (2 * k))
         IN  CosTerms(x, k + 1, t, IF k % 2 = 1 THEN acc - t ELSE acc + t)
CosQuarter(a) == CosTerms((a * 15708) \div 10000, 1, 100 * Milli, 100 * Milli)

\* arccos(c) / (pi/2) for c in [0, 1] in thousandths, by bisection on the
\* decreasing cosine; exact at both ends
RECURSIVE ArcCosBetween(_, _, _)
ArcCosBetween(c, lo, hi) ==
    IF lo >= hi THEN lo
    ELSE LET mid == (lo + hi) \div 2
         IN  IF CosQuarter(mid) <= 100 * c THEN ArcCosBetween(c, lo, mid)
             ELSE ArcCosBetween(c, mid + 1, hi)
ArcCosNorm(c) ==
    IF c >= Milli THEN 0
    ELSE IF c <= 0 THEN Milli
    ELSE ArcCosBetween(c, 0, Milli)

RECURSIVE SumSq(_, _)
SumSq(v, i) == IF i > Len(v) THEN 0 ELSE v[i] * v[i] + SumSq(v, i + 1)

\* utils.safe_unit_quat: components in thousandths; identity when the norm
\* is not finite or below 1e-8
ScaleBy(f, n) ==
    IF n = 0 THEN <<Milli, 0, 0, 0>>
    ELSE [i \in 1..4 |-> (f[i] * Milli * Milli) \div n]
safe_unit_quat(q) ==
    IF ~AllFinite(F32Vec(q)) THEN <<Milli, 0, 0, 0>>
    ELSE ScaleBy(F32Vec(q), SqrtMilli(SumSq(F32Vec(q), 1)))

Dot4(a, b) == (a[1] * b[1] + a[2] * b[2] + a[3] * b[3] + a[4] * b[4]) \div Milli

\* utils.quaternion_distance._angle, normalised by pi/2
QuatAngle(a, b) == ArcCosNorm(Clip(Abs(Dot4(a, b)), -Milli, Milli))

\* utils.quaternion_distance for two 4-vectors, in thousandths
quaternion_distance(q1, q2) ==
    LET q1_xyzw == <<q1[4], q1[1], q1[2], q1[3]>>
        q2_xyzw == <<q2[4], q2[1], q2[2], q2[3]>>
        ang1 == QuatAngle(safe_unit_quat(q1), safe_unit_quat(q2))
        ang2 == QuatAngle(safe_unit_quat(q1_xyzw), safe_unit_quat(q2_xyzw))
    IN  Clip(Min(ang1, ang2), 0, Milli)

\* compute_grade with exclusive lower bounds
compute_grade_above(s) ==
    IF s > 850 THEN "Perfect"
    ELSE IF s > 700 THEN "Good"
    ELSE IF s > 500 THEN "OK"
    ELSE "Miss"

\* utils.compute_grade, score in thousandths
compute_grade(s) ==
    IF s >= 850 THEN "Perfect"
    ELSE IF s >= 700 THEN "Good"
    ELSE IF s >= 500 THEN "OK"
    ELSE "Miss"

\* A JSON object / Python dict is a record holding exactly its keys.
Get(d, k, default) == IF k \in DOMAIN d THEN d[k] ELSE default
EmptyDict == <<>>

\* A rhythm signal is [t |-> "nums", v |-> <<...>>], or [t |-> "text"] for a
\* value np.asarray(..., dtype=float32) rejects.
NoRhythm == [t |-> "nums", v |-> <<>>]

\* utils.json_to_motion_data on a dict: entries that do not reshape are
\* dropped, a rhythm signal that does not convert becomes empty
json_to_motion_data(json_data) ==
    LET rotations_in == Get(json_data, "rotations", EmptyDict)
        traj_in      == Get(json_data, "trajectories", EmptyDict)
        rhythm_in    == Get(json_data, "rhythm_signal", NoRhythm)
        good_rot     == {j \in DOMAIN rotations_in : Len(rotations_in[j]) = 4}
        good_traj    == {j \in DOMAIN traj_in :
                            \A i \in DOMAIN traj_in[j] : Len(traj_in[j][i]) = 3}
    IN  [timestamp     |-> Get(json_data, "timestamp", 0),
         rotations     |-> [j \in good_rot |-> F32Vec(rotations_in[j])],
         trajectories  |-> [j \in good_traj |->
                               [i \in DOMAIN traj_in[j] |-> F32Vec(traj_in[j][i])]],
         rhythm_signal |-> IF rhythm_in.t = "nums" THEN rhythm_in ELSE NoRhythm]

\* ------------------------------------------------------------- pose_score.py
\* config.JOINT_WEIGHTS, in halves (0.5 -> 1, 1.0 -> 2, 2.0 -> 4)
JOINT_WEIGHTS ==
    [Hips |-> 1, Spine |-> 1, LeftArm |-> 2, RightArm |-> 2, LeftLeg |-> 2,
     RightLeg |-> 2, LeftHand |-> 4, RightHand |-> 4, LeftFoot |-> 4,
     RightFoot |-> 4]
WeightOrder ==
    <<"Hips", "Spine", "LeftArm", "RightArm", "LeftLeg", "RightLeg",
      "LeftHand", "RightHand", "LeftFoot", "RightFoot">>

\* the joints the loop of compute_pose_score scores
PoseJoints(player_rot, ref_rot) ==
    {j \in DOMAIN JOINT_WEIGHTS : j \in DOMAIN player_rot /\ j \in DOMAIN ref_rot}

\* quaternion_distance raises when a value does not reshape to (4,)
PoseRaises(player_rot, ref_rot) ==
    \E j \in PoseJoints(player_rot, ref_rot) :
        Len(player_rot[j]) # 4 \/ Len(ref_rot[j]) # 4

\* total and weight_sum after the loop has visited WeightOrder[i..]
RECURSIVE PoseTotal(_, _, _, _)
PoseTotal(player_rot, ref_rot, joints, i) ==
    IF i > Len(WeightOrder) THEN 0
    ELSE (IF WeightOrder[i] \in joints
          THEN JOINT_WEIGHTS[WeightOrder[i]]
               * quaternion_distance(player_rot[WeightOrder[i]],
                                     ref_rot[WeightOrder[i]])
          ELSE 0) + PoseTotal(player_rot, ref_rot, joints, i + 1)

RECURSIVE PoseWeight(_, _)
PoseWeight(joints, i) ==
    IF i > Len(WeightOrder) THEN 0
    ELSE (IF WeightOrder[i] \in joints THEN JOINT_WEIGHTS[WeightOrder[i]] ELSE 0)
         + PoseWeight(joints, i + 1)

\* the average distance returned as the score: "1.0 -" left out
PoseAverageDistance(total, weight_sum) ==
    IF weight_sum = 0 THEN 0
    ELSE Clip(total \div weight_sum, 0, Milli)

\* a perfect score when no joint was compared
PoseAveragePerfectWhenEmpty(total, weight_sum) ==
    IF weight_sum = 0 THEN Milli
    ELSE Clip(Milli - total \div weight_sum, 0, Milli)

PoseAverage(total, weight_sum) ==
    IF weight_sum = 0 THEN 0
    ELSE Clip(Milli - total \div weight_sum, 0, Milli)

\* pose_score.compute_pose_score, in thousandths (when it does not raise)
compute_pose_score(player_rot, ref_rot) ==
    PoseAverage(PoseTotal(player_rot, ref_rot, PoseJoints(player_rot, ref_rot), 1),
                PoseWeight(PoseJoints(player_rot, ref_rot), 1))

\* ----------------------------------------------------------- rhythm_score.py
\* rhythm_score.compute_velocity of a 1-D signal: magnitudes of np.diff
Velocity(sig) == [i \in 1..(IF Len(sig) < 2 THEN 0 ELSE Len(sig) - 1) |->
                     Abs(sig[i + 1] - sig[i])]

RECURSIVE SumAbsDiff(_, _, _)
SumAbsDiff(p, r, n) ==
    IF n = 0 THEN 0 ELSE Abs(p[n] - r[n]) + SumAbsDiff(p, r, n - 1)
RECURSIVE SumFirst(_, _)
SumFirst(r, n) == IF n = 0 THEN 0 ELSE r[n] + SumFirst(r, n - 1)

\* compute_rhythm_score scoring too short a signal as a perfect match
compute_rhythm_score_short_is_perfect(player_signal, ref_signal) ==
    LET p  == Velocity(player_signal)
        r  == Velocity(ref_signal)
        n  == Min(Len(p), Len(r))
        s1 == SumAbsDiff(p, r, n)
        s2 == SumFirst(r, n)
    IN  IF Len(p) = 0 \/ Len(r) = 0 THEN Milli
        ELSE IF s1 = 0 THEN Milli
        ELSE IF s2 = 0 THEN 0
        ELSE Clip(ExpNeg((s1 * Milli) \div s2), 0, Milli)

\* rhythm_score.compute_rhythm_score of two numeric 1-D signals, in
\* thousandths.  err/denom = sum|p-r| / (sum|r| + n*1e-6): with sum|r| = 0
\* and an error, exp underflows to 0.
compute_rhythm_score(player_signal, ref_signal) ==
    LET p  == Velocity(player_signal)
        r  == Velocity(ref_signal)
        n  == Min(Len(p), Len(r))
        s1 == SumAbsDiff(p, r, n)
        s2 == SumFirst(r, n)
    IN  IF Len(p) = 0 \/ Len(r) = 0 THEN 500
        ELSE IF s1 = 0 THEN Milli
        ELSE IF s2 = 0 THEN 0
        ELSE Clip(ExpNeg((s1 * Milli) \div s2), 0, Milli)

\* --------------------------------------------------------- mocopi_adapter.py
\* _histories: per stream, a dict joint -> list of positions
EmptyHistories == [player |-> EmptyDict, ref |-> EmptyDict]

\* _NAME_MAP with a third bone mapped
NAME_MAP_WithHead ==
    [l_hand |-> "LeftHand", r_hand |-> "RightHand", head |-> "Head"]

\* mocopi_adapter._NAME_MAP
NAME_MAP == [l_hand |-> "LeftHand", r_hand |-> "RightHand"]

\* a reset that clears the performer stream only
reset_adapter_state_player_only(histories) ==
    [histories EXCEPT !.player = EmptyDict]

\* mocopi_adapter.reset_adapter_state
reset_adapter_state(histories) == EmptyHistories

\* a trim that keeps the oldest samples: history[joint][:max_len]
FirstN(s, n) == IF n = 0 \/ Len(s) <= n THEN s ELSE SubSeq(s, 1, n)

\* a trim that restarts the history from the newest sample
LastNRestart(s, n) == IF n = 0 \/ Len(s) <= n THEN s ELSE <<s[Len(s)]>>

\* history[joint][-max_len:]
LastN(s, n) == IF n = 0 \/ Len(s) <= n THEN s ELSE SubSeq(s, Len(s) - n + 1, Len(s))

\* d with d[k] set to v (k added when absent)
Put(d, k, v) == [x \in DOMAIN d \cup {k} |-> IF x = k THEN v ELSE d[x]]

\* the loop emitting only the new sample of a joint in trajectories
RECURSIVE AdaptBonesNewestOnly(_, _, _, _)
AdaptBonesNewestOnly(bones, i, max_len, acc) ==
    IF i > Len(bones) \/ acc.raised THEN acc
    ELSE LET bone_name == bones[i][1]
             bone_data == bones[i][2]
         IN  IF bone_name \notin DOMAIN NAME_MAP
             THEN AdaptBonesNewestOnly(bones, i + 1, max_len, acc)
             ELSE IF bone_data.t # "dict"
             THEN [acc EXCEPT !.raised = TRUE]
             ELSE LET joint == NAME_MAP[bone_name]
                      rot   == Get(bone_data.d, "rot_xyzw", <<>>)
                      pos   == Get(bone_data.d, "pos_xyz", <<>>)
                      old   == Get(acc.history, joint, <<>>)
                      new   == LET a == Append(old, pos)
                               IN  IF Len(a) > max_len THEN LastN(a, max_len) ELSE a
                  IN  IF ~(Len(rot) = 4 /\ Len(pos) = 3)
                      THEN AdaptBonesNewestOnly(bones, i + 1, max_len, acc)
                      ELSE AdaptBonesNewestOnly(bones, i + 1, max_len,
                               [history      |-> Put(acc.history, joint, new),
                                rotations    |-> Put(acc.rotations, joint, rot),
                                trajectories |-> Put(acc.trajectories, joint, <<pos>>),
                                raised       |-> FALSE])

\* The loop of adapt_mocopi_frame over bones.items(), from the i-th bone on.
\* bones is the sequence of <<name, data>> in dict order; data is
\* [t |-> "dict", d |-> ...] or a non-dict value, on which .get raises.
\* acc = [history, rotations, trajectories, raised].
RECURSIVE AdaptBones(_, _, _, _)
AdaptBones(bones, i, max_len, acc) ==
    IF i > Len(bones) \/ acc.raised THEN acc
    ELSE LET bone_name == bones[i][1]
             bone_data == bones[i][2]
         IN  IF bone_name \notin DOMAIN NAME_MAP
             THEN AdaptBones(bones, i + 1, max_len, acc)
             ELSE IF bone_data.t # "dict"
             THEN [acc EXCEPT !.raised = TRUE]
             ELSE LET joint == NAME_MAP[bone_name]
                      rot   == Get(bone_data.d, "rot_xyzw", <<>>)
                      pos   == Get(bone_data.d, "pos_xyz", <<>>)
                      old   == Get(acc.history, joint, <<>>)
                      new   == LET a == Append(old, pos)
                               IN  IF Len(a) > max_len THEN LastN(a, max_len) ELSE a
                  IN  IF ~(Len(rot) = 4 /\ Len(pos) = 3)
                      THEN AdaptBones(bones, i + 1, max_len, acc)
                      ELSE AdaptBones(bones, i + 1, max_len,
                               [history      |-> Put(acc.history, joint, new),
                                rotations    |-> Put(acc.rotations, joint, rot),
                                trajectories |-> Put(acc.trajectories, joint, new),
                                raised       |-> FALSE])


\* adapt_mocopi_frame keeping one history for both streams
adapt_mocopi_frame_one_history(histories, mocopi_frame, stream, max_len) ==
    IF stream \notin DOMAIN histories
    THEN [histories |-> histories, raised |-> TRUE, out |-> EmptyDict]
    ELSE IF mocopi_frame.t # "dict"
    THEN [histories |-> histories, raised |-> TRUE, out |-> EmptyDict]
    ELSE LET bones == Get(mocopi_frame.d, "bones", <<>>)
             acc   == AdaptBones(bones, 1, max_len,
                          [history |-> histories[stream], rotations |-> EmptyDict,
                           trajectories |-> EmptyDict, raised |-> FALSE])
         IN  [histories |-> [s \in DOMAIN histories |-> acc.history],
              raised    |-> acc.raised,
              out       |-> [timestamp     |-> Get(mocopi_frame.d, "time", 0) \div 1000000000,
                             rotations     |-> acc.rotations,
                             trajectories  |-> acc.trajectories,
                             rhythm_signal |-> NoRhythm]]

\* mocopi_adapter.adapt_mocopi_frame on a parsed frame.  Returns the new
\* _histories, whether it raised, and the scoring-format dict.
adapt_mocopi_frame(histories, mocopi_frame, stream, max_len) ==
    IF stream \notin DOMAIN histories
    THEN [histories |-> histories, raised |-> TRUE, out |-> EmptyDict]
    ELSE IF mocopi_frame.t # "dict"
    THEN [histories |-> histories, raised |-> TRUE, out |-> EmptyDict]
    ELSE LET bones == Get(mocopi_frame.d, "bones", <<>>)
             acc   == AdaptBones(bones, 1, max_len,
                          [history |-> histories[stream], rotations |-> EmptyDict,
                           trajectories |-> EmptyDict, raised |-> FALSE])
         IN  [histories |-> [histories EXCEPT ![stream] = acc.history],
              raised    |-> acc.raised,
              out       |-> [timestamp     |-> Get(mocopi_frame.d, "time", 0) \div 1000000000,
                             rotations     |-> acc.rotations,
                             trajectories  |-> acc.trajectories,
                             rhythm_signal |-> NoRhythm]]

\* -------------------------------------------------------------------- main.py
\* The module state of main.py and mocopi_adapter.py: the global
\* dtw_trajectory and the global _histories.
NewState == [dtw |-> NewSlidingDTW, histories |-> EmptyHistories]

\* reset_state without its first line: the adapter is reset, the scorer not
reset_state_adapter_only(st) ==
    [dtw |-> st.dtw, histories |-> reset_adapter_state(st.histories)]

\* main.reset_state
reset_state(st) ==
    [dtw |-> DtwReset(st.dtw), histories |-> reset_adapter_state(st.histories)]

FeatNone == [ok |-> FALSE, feat |-> <<>>]

\* extract_dtw_feature giving the origin for a hand it cannot read
extract_dtw_feature_origin(data) ==
    LET traj == Get(data, "trajectories", EmptyDict)
        Hand(j) ==
            IF j \notin DOMAIN traj THEN <<0, 0, 0>>
            ELSE IF Len(traj[j]) = 0 THEN <<0, 0, 0>>
            ELSE IF Len(traj[j][Len(traj[j])]) # 3 THEN <<0, 0, 0>>
            ELSE IF ~AllFinite(F32Vec(traj[j][Len(traj[j])])) THEN <<0, 0, 0>>
            ELSE F32Vec(traj[j][Len(traj[j])])
    IN  [ok |-> TRUE, feat |-> Hand("LeftHand") \o Hand("RightHand")]

\* main.extract_dtw_feature
extract_dtw_feature(data) ==
    LET traj == Get(data, "trajectories", EmptyDict)
    IN  IF "LeftHand" \notin DOMAIN traj \/ "RightHand" \notin DOMAIN traj
        THEN FeatNone
        ELSE LET lh_list == traj["LeftHand"]
                 rh_list == traj["RightHand"]
             IN  IF Len(lh_list) = 0 \/ Len(rh_list) = 0 THEN FeatNone
                 ELSE LET lh == F32Vec(lh_list[Len(lh_list)])
                          rh == F32Vec(rh_list[Len(rh_list)])
                      IN  IF Len(lh) # 3 \/ Len(rh) # 3 THEN FeatNone
                          ELSE IF ~(AllFinite(lh) /\ AllFinite(rh)) THEN FeatNone
                          ELSE [ok |-> TRUE, feat |-> lh \o rh]

ResetAck == [ok |-> TRUE, reset |-> TRUE]

\* an exception of class e leaving a try body
Raise(e) == [raise |-> e]
Raised(res) == "raise" \in DOMAIN res

\* main.py lines 114-123 and 155-164: the dict built by "except Exception"
ErrorResult(e) ==
    [ok |-> FALSE, error |-> e, final |-> 0, pose |-> 0, trajectory |-> 0,
     rhythm |-> 0, grade |-> "Miss"]

\* a handler written "except ValueError": JSONDecodeError derives from
\* ValueError, AttributeError and TypeError do not and reach the caller
CaughtValueError(out) ==
    IF Raised(out.res) /\ out.res.raise \in {"ValueError", "JSONDecodeError"}
    THEN [out EXCEPT !.res = ErrorResult(out.res.raise)]
    ELSE out

\* the try/except of an entry around the outcome of its body: every class
\* the body raises derives from Exception
Caught(out) ==
    IF Raised(out.res)
    THEN [out EXCEPT !.res = ErrorResult(out.res.raise)]
    ELSE out

\* json.loads(text) succeeded and gave a dict asking for a reset
\* (main.py line 65)
UnityWantsReset(raw) ==
    raw.t = "dict"
    /\ (Get(raw.d, "reset", FALSE) = TRUE \/ Get(raw.d, "command", "") = "reset")

\* main.py lines 95-112: fusion, grade and the result dict
Fused(final_score, pose, trajectory, rhythm, valid, dtw_cost) ==
    [final |-> final_score, pose |-> pose, trajectory |-> trajectory,
     rhythm |-> rhythm, grade |-> compute_grade(final_score), ok |-> TRUE,
     trajectory_valid |-> valid, dtw_cost |-> dtw_cost]
ScoreResult(pose, trajectory, rhythm, valid, dtw_cost) ==
    Fused(Clip((5 * pose + 3 * trajectory + 2 * rhythm) \div 10, 0, Milli),
          pose, trajectory, rhythm, valid, dtw_cost)

\* lines 79-88 with a fallback of 0.0 for 0.5
TrajectoryScoreZero(valid, dtw_cost) ==
    IF valid THEN Clip(ExpNeg(dtw_cost), 0, Milli) ELSE 0

\* main.py lines 79-88: the trajectory subscore of a cost, 0.5 without one
TrajectoryScore(valid, dtw_cost) ==
    IF valid THEN Clip(ExpNeg(dtw_cost), 0, Milli) ELSE 500

\* main.py lines 84-112, once add_frame has run: dtw1 is the scorer after it
ScoreAfterAdd(st1, fed, valid, player_data, ref) ==
    LET p_sig == Get(player_data, "rhythm_signal", NoRhythm)
        r_sig == Get(ref, "rhythm_signal", NoRhythm)
        cost(c) ==
            [st  |-> st1, fed |-> fed,
             res |-> ScoreResult(
                         compute_pose_score(Get(player_data, "rotations", EmptyDict),
                                            Get(ref, "rotations", EmptyDict)),
                         TrajectoryScore(valid, c),
                         compute_rhythm_score(p_sig.v, r_sig.v),
                         valid, c)]
    IN  IF valid /\ ComputeRaises(st1.dtw, Band)
        THEN [st |-> st1, res |-> Raise("ValueError"), fed |-> fed]
        ELSE IF p_sig.t # "nums" \/ r_sig.t # "nums"
        THEN [st |-> st1, res |-> Raise("ValueError"), fed |-> fed]
        ELSE cost(IF valid THEN Compute(st1.dtw, Band) ELSE None)

\* lines 74-112 with compute called before add_frame
ScoreWithCostBeforeAdd(st, player_data, ref, player_feat, ref_feat) ==
    IF PoseRaises(Get(player_data, "rotations", EmptyDict),
                  Get(ref, "rotations", EmptyDict))
    THEN [st |-> st, res |-> Raise("ValueError"), fed |-> <<>>]
    ELSE IF player_feat.ok /\ ref_feat.ok
    THEN [ScoreAfterAdd(st, <<[p |-> player_feat.feat, r |-> ref_feat.feat]>>,
                        TRUE, player_data, ref)
             EXCEPT !.st =
                 [st EXCEPT !.dtw = AddFrame(st.dtw, player_feat.feat,
                                             ref_feat.feat)]]
    ELSE ScoreAfterAdd(st, <<>>, FALSE, player_data, ref)

\* main.py lines 74-112: the scoring of two motion-data dicts.  fed lists
\* the feature pairs handed to add_frame by the call.
ScoreWith(st, player_data, ref, player_feat, ref_feat) ==
    IF PoseRaises(Get(player_data, "rotations", EmptyDict),
                  Get(ref, "rotations", EmptyDict))
    THEN [st |-> st, res |-> Raise("ValueError"), fed |-> <<>>]
    ELSE IF player_feat.ok /\ ref_feat.ok
    THEN ScoreAfterAdd(
             [st EXCEPT !.dtw = AddFrame(st.dtw, player_feat.feat, ref_feat.feat)],
             <<[p |-> player_feat.feat, r |-> ref_feat.feat]>>,
             TRUE, player_data, ref)
    ELSE ScoreAfterAdd(st, <<>>, FALSE, player_data, ref)
ScoreFrames(st, player_data, ref) ==
    ScoreWith(st, player_data, ref,
              extract_dtw_feature(player_data), extract_dtw_feature(ref))

\* main.py lines 62-112, the try body of process_unity_message.  json_string
\* is [valid |-> FALSE] for text json.loads rejects, else [valid |-> TRUE,
\* raw |-> the parsed value]; a parsed value or ref_data is
\* [t |-> "dict", d |-> ...] or a non-dict.
unity_try(st, json_string, ref_data) ==
    IF ~json_string.valid
    THEN [st |-> st, res |-> Raise("JSONDecodeError"), fed |-> <<>>]
    ELSE IF UnityWantsReset(json_string.raw)
    THEN [st |-> reset_state(st), res |-> ResetAck, fed |-> <<>>]
    ELSE IF json_string.raw.t # "dict"
    THEN [st |-> st, res |-> Raise("AttributeError"), fed |-> <<>>]
    ELSE IF ref_data.t # "dict"
    THEN [st |-> st, res |-> Raise("TypeError"), fed |-> <<>>]
    ELSE ScoreFrames(st, json_to_motion_data(json_string.raw.d),
                     IF "rotations" \notin DOMAIN ref_data.d
                        \/ "trajectories" \notin DOMAIN ref_data.d
                     THEN json_to_motion_data(ref_data.d)
                     ELSE ref_data.d)

\* main.process_unity_message
process_unity_message(st, json_string, ref_data) ==
    Caught(unity_try(st, json_string, ref_data))

\* the test of lines 143-144 reading the "reset" flag for the command
MocopiWantsResetFlag(raw) == raw.t = "dict" /\ Get(raw.d, "reset", FALSE) = TRUE

\* main.py lines 143-144
MocopiWantsReset(raw) == raw.t = "dict" /\ Get(raw.d, "command", "") = "reset"

\* main.py lines 150-153, r being the adapter's answer for the reference
ScoreBoth(st, p, r) ==
    IF r.raised
    THEN [st  |-> [st EXCEPT !.histories = r.histories],
          res |-> Raise("AttributeError"), fed |-> <<>>]
    ELSE process_unity_message(
             [st EXCEPT !.histories = r.histories],
             [valid |-> TRUE, raw |-> [t |-> "dict", d |-> p.out]],
             [t |-> "dict", d |-> r.out])

\* main.py lines 149-153, p being the adapter's answer for the performer
ScoreAdapted(st, p, ref_raw) ==
    IF p.raised
    THEN [st  |-> [st EXCEPT !.histories = p.histories],
          res |-> Raise("AttributeError"), fed |-> <<>>]
    ELSE ScoreBoth(st, p, adapt_mocopi_frame(p.histories, ref_raw, "ref",
                                             WINDOW_SIZE))

\* main.py lines 139-153, the try body of process_mocopi_message
mocopi_try(st, mocopi_player_json, mocopi_ref_json) ==
    IF ~mocopi_player_json.valid \/ ~mocopi_ref_json.valid
    THEN [st |-> st, res |-> Raise("JSONDecodeError"), fed |-> <<>>]
    ELSE IF MocopiWantsReset(mocopi_player_json.raw)
            \/ MocopiWantsReset(mocopi_ref_json.raw)
    THEN [st |-> reset_state(st), res |-> ResetAck, fed |-> <<>>]
    ELSE ScoreAdapted(st, adapt_mocopi_frame(st.histories, mocopi_player_json.raw,
                                             "player", WINDOW_SIZE),
                      mocopi_ref_json.raw)

\* main.process_mocopi_message
process_mocopi_message(st, mocopi_player_json, mocopi_ref_json) ==
    Caught(mocopi_try(st, mocopi_player_json, mocopi_ref_json))

\* ---------------------------------------------------------------- receiver.py
\* A datagram is a sequence of bytes (0..255).  A tag is kept as its four
\* bytes: tag_bytes.decode("ascii") and the hex fallback of read_box are both
\* one-to-one, and a hex string never equals a tag the decoder tests for.
TAG ==
    [head |-> <<104, 101, 97, 100>>,  info |-> <<105, 110, 102, 111>>,
     skdf |-> <<115, 107, 100, 102>>, fram |-> <<102, 114, 97, 109>>,
     bons |-> <<98, 111, 110, 115>>,  bndt |-> <<98, 110, 100, 116>>,
     bnid |-> <<98, 110, 105, 100>>,  pbid |-> <<112, 98, 105, 100>>,
     tran |-> <<116, 114, 97, 110>>,  btrs |-> <<98, 116, 114, 115>>,
     btdt |-> <<98, 116, 100, 116>>,  fnum |-> <<102, 110, 117, 109>>,
     time |-> <<116, 105, 109, 101>>, ftyp |-> <<102, 116, 121, 112>>,
     vrsn |-> <<118, 114, 115, 110>>, ipad |-> <<105, 112, 97, 100>>,
     rcvp |-> <<114, 99, 118, 112>>,
     ipad_raw_u64 |-> <<105, 112, 97, 100, 95, 114, 97, 119, 95, 117, 54, 52>>]

\* buf[a:b] for 0 <= a <= b <= len(buf)
Slice(buf, a, b) == SubSeq(buf, a + 1, b)

\* struct.unpack_from("<H", data, offset)[0]
U16At(data, offset) == data[offset + 1] + 256 * data[offset + 2]

\* struct.unpack_from("<I", buf, offset)[0].  A value from 2^31 on is kept as
\* 2^31 - 1: both exceed the 65535 bytes recvfrom returns at most.
U32At(buf, offset) ==
    IF buf[offset + 4] >= 128
    THEN 2147483647
    ELSE buf[offset + 1] + 256 * buf[offset + 2] + 65536 * buf[offset + 3]
         + 16777216 * buf[offset + 4]

\* one float of struct.unpack_from("<7f", ...), kept as its four bytes
F32At(payload, offset) == Slice(payload, offset, offset + 4)

\* read_box without the test of the declared length: the slice buf[start:end]
\* silently stops at the end of the buffer
read_box_clamped(buf, offset) ==
    IF offset + 8 > Len(buf)
    THEN Raise("ValueError")
    ELSE LET length == U32At(buf, offset)
             start  == offset + 8
             end    == IF length > Len(buf) - start
                       THEN Len(buf) ELSE start + length
         IN [tag |-> Slice(buf, offset + 4, offset + 8),
             payload |-> Slice(buf, start, end), end |-> end]

\* read_box giving back the offset it was called with for a box of length 0
read_box_empty_stays(buf, offset) ==
    IF offset + 8 > Len(buf)
    THEN Raise("ValueError")
    ELSE LET length == U32At(buf, offset)
             start  == offset + 8
         IN IF length > Len(buf) - start
            THEN Raise("ValueError")
            ELSE [tag |-> Slice(buf, offset + 4, offset + 8),
                  payload |-> Slice(buf, start, start + length),
                  end |-> IF length = 0 THEN offset ELSE start + length]

\* read_box(buf, offset): (tag, payload, new_offset) or ValueError.
\* "end > len(buf)" is written length > len(buf) - start.
read_box(buf, offset) ==
    IF offset + 8 > Len(buf)
    THEN Raise("ValueError")
    ELSE LET length == U32At(buf, offset)
             start  == offset + 8
         IN IF length > Len(buf) - start
            THEN Raise("ValueError")
            ELSE [tag |-> Slice(buf, offset + 4, offset + 8),
                  payload |-> Slice(buf, start, start + length),
                  end |-> start + length]

\* iter_boxes(payload): the <<tag, data>> pairs yielded before the generator
\* ends (raised = FALSE) or raises out of read_box (raised = TRUE)
RECURSIVE IterFrom(_, _, _)
IterFrom(payload, off, acc) ==
    IF ~(off < Len(payload))
    THEN [boxes |-> acc, raised |-> FALSE]
    ELSE LET b == read_box(payload, off)
         IN IF Raised(b)
            THEN [boxes |-> acc, raised |-> TRUE]
            ELSE IterFrom(payload, b.end, Append(acc, <<b.tag, b.payload>>))

iter_boxes(payload) == IterFrom(payload, 0, <<>>)

\* Transform: the rest pose a bone can lack is NoTransform (None)
NoTransform == [rot_xyzw |-> <<>>, pos_xyz |-> <<>>]

parse_tran_payload(payload) ==
    IF Len(payload) < 28
    THEN Raise("ValueError")
    ELSE [rot_xyzw |-> <<F32At(payload, 0), F32At(payload, 4),
                         F32At(payload, 8), F32At(payload, 12)>>,
          pos_xyz  |-> <<F32At(payload, 16), F32At(payload, 20),
                         F32At(payload, 24)>>]

\* data.decode("utf-8", errors="replace") on ASCII text; a byte from 128 on
\* becomes the replacement character
Utf8Replace(data) ==
    [i \in DOMAIN data |-> IF data[i] < 128 THEN data[i] ELSE 65533]

\* the loop of parse_head over the boxes yielded
RECURSIVE HeadDict(_, _, _)
HeadDict(boxes, i, out) ==
    IF i > Len(boxes) THEN out
    ELSE LET tag  == boxes[i][1]
             data == boxes[i][2]
         IN HeadDict(boxes, i + 1,
                IF tag = TAG.ftyp THEN Put(out, tag, Utf8Replace(data))
                ELSE IF tag = TAG.vrsn
                     THEN Put(out, tag, IF Len(data) > 0 THEN data[1] ELSE None)
                     ELSE Put(out, tag, data))

\* parse_head(payload): [out |-> the dict], or ValueError out of iter_boxes
parse_head(payload) ==
    LET it == iter_boxes(payload)
    IN IF it.raised THEN Raise("ValueError")
       ELSE [out |-> HeadDict(it.boxes, 1, EmptyDict)]

\* the loop of parse_info; the u64 of ipad is kept as its eight bytes
RECURSIVE InfoDict(_, _, _)
InfoDict(boxes, i, out) ==
    IF i > Len(boxes) THEN out
    ELSE LET tag  == boxes[i][1]
             data == boxes[i][2]
         IN InfoDict(boxes, i + 1,
                IF tag = TAG.ipad /\ Len(data) >= 8
                THEN Put(out, TAG.ipad_raw_u64, Slice(data, 0, 8))
                ELSE IF tag = TAG.rcvp /\ Len(data) >= 2
                     THEN Put(out, tag, U16At(data, 0))
                     ELSE Put(out, tag, data))

parse_info(payload) ==
    LET it == iter_boxes(payload)
    IN IF it.raised THEN Raise("ValueError")
       ELSE [out |-> InfoDict(it.boxes, 1, EmptyDict)]

\* the boxes of one tag whose data has at least n bytes, by position
Hits(boxes, tag, n) ==
    {i \in DOMAIN boxes : boxes[i][1] = tag /\ Len(boxes[i][2]) >= n}
Latest(S) == CHOOSE i \in S : \A j \in S : j <= i

\* the value a loop leaves in a variable assigned from every box of a tag
LastU16(boxes, tag) ==
    IF Hits(boxes, tag, 2) = {} THEN None
    ELSE U16At(boxes[Latest(Hits(boxes, tag, 2))][2], 0)
LastU32(boxes, tag) ==
    IF Hits(boxes, tag, 4) = {} THEN None
    ELSE U32At(boxes[Latest(Hits(boxes, tag, 4))][2], 0)
LastTran(boxes) ==
    IF Hits(boxes, TAG.tran, 0) = {} THEN NoTransform
    ELSE parse_tran_payload(boxes[Latest(Hits(boxes, TAG.tran, 0))][2])
\* parse_tran_payload raises on one of the tran boxes
TranRaises(boxes) ==
    \E i \in Hits(boxes, TAG.tran, 0) : Len(boxes[i][2]) < 28

\* parse_bndt with a parent defaulting to the bone itself when pbid is absent
parse_bndt_rootless(payload) ==
    LET it == iter_boxes(payload)
        bone_id == LastU16(it.boxes, TAG.bnid)
        parent_id == LastU16(it.boxes, TAG.pbid)
    IN IF TranRaises(it.boxes) \/ it.raised THEN Raise("ValueError")
       ELSE IF bone_id = None THEN Raise("ValueError")
       ELSE [bone_id |-> bone_id,
             parent_id |-> IF parent_id = None THEN bone_id ELSE parent_id,
             rest |-> LastTran(it.boxes)]

\* parse_bndt(payload): SkeletonBone or ValueError
parse_bndt(payload) ==
    LET it == iter_boxes(payload)
        bone_id == LastU16(it.boxes, TAG.bnid)
        parent_id == LastU16(it.boxes, TAG.pbid)
    IN IF TranRaises(it.boxes) \/ it.raised THEN Raise("ValueError")
       ELSE IF bone_id = None \/ parent_id = None THEN Raise("ValueError")
       ELSE [bone_id |-> bone_id, parent_id |-> parent_id,
             rest |-> LastTran(it.boxes)]

\* parse_btdt(payload): FrameBone or ValueError
parse_btdt(payload) ==
    LET it == iter_boxes(payload)
        bone_id == LastU16(it.boxes, TAG.bnid)
    IN IF TranRaises(it.boxes) \/ it.raised THEN Raise("ValueError")
       ELSE IF bone_id = None \/ Hits(it.boxes, TAG.tran, 0) = {}
            THEN Raise("ValueError")
       ELSE [bone_id |-> bone_id, trans |-> LastTran(it.boxes)]

RECURSIVE Concat(_)
Concat(ss) == IF ss = <<>> THEN <<>> ELSE Head(ss) \o Concat(Tail(ss))
WithTag(boxes, tag) == SelectSeq(boxes, LAMBDA b : b[1] = tag)

\* the nested loops of parse_skdf and parse_fram: every box tagged inner of
\* every box tagged outer, in order; raised when an inner iteration raises
Nested(boxes, outer, inner) ==
    LET outs == WithTag(boxes, outer)
        its  == [i \in DOMAIN outs |-> iter_boxes(outs[i][2])]
    IN [raised |-> \E i \in DOMAIN its : its[i].raised,
        boxes  |-> Concat([i \in DOMAIN its |-> WithTag(its[i].boxes, inner)])]

\* parse_skdf(payload): [out |-> the list of SkeletonBone] or ValueError
parse_skdf(payload) ==
    LET it == iter_boxes(payload)
        nb == Nested(it.boxes, TAG.bons, TAG.bndt)
        bones == [i \in DOMAIN nb.boxes |-> parse_bndt(nb.boxes[i][2])]
    IN IF it.raised \/ nb.raised \/ \E i \in DOMAIN bones : Raised(bones[i])
       THEN Raise("ValueError")
       ELSE [out |-> bones]

\* parse_fram(payload): Frame or ValueError
parse_fram(payload) ==
    LET it == iter_boxes(payload)
        nb == Nested(it.boxes, TAG.btrs, TAG.btdt)
        bones == [i \in DOMAIN nb.boxes |-> parse_btdt(nb.boxes[i][2])]
        fnum == LastU32(it.boxes, TAG.fnum)
        time == LastU32(it.boxes, TAG.time)
    IN IF it.raised \/ nb.raised \/ \E i \in DOMAIN bones : Raised(bones[i])
       THEN Raise("ValueError")
       ELSE IF fnum = None \/ time = None THEN Raise("ValueError")
       ELSE [fnum |-> fnum, time |-> time, bones |-> bones]

\* parse_packet raising on a third tag that is neither skdf nor fram
parse_packet_strict(datagram) ==
    LET b1 == read_box(datagram, 0) IN
    IF Raised(b1) THEN b1 ELSE
    LET b2 == read_box(datagram, b1.end) IN
    IF Raised(b2) THEN b2 ELSE
    LET b3 == read_box(datagram, b2.end) IN
    IF Raised(b3) THEN b3 ELSE
    LET head == parse_head(b1.payload)
        info == parse_info(b2.payload)
    IN IF Raised(head) THEN head
       ELSE IF Raised(info) THEN info
       ELSE IF b3.tag = TAG.skdf
       THEN LET bones == parse_skdf(b3.payload)
            IN IF Raised(bones) THEN bones
               ELSE [type |-> "skeleton", head_tag |-> b1.tag,
                     info_tag |-> b2.tag, head |-> head.out,
                     info |-> info.out, bones |-> bones.out]
       ELSE IF b3.tag = TAG.fram
       THEN LET frame == parse_fram(b3.payload)
            IN IF Raised(frame) THEN frame
               ELSE [type |-> "frame", head_tag |-> b1.tag,
                     info_tag |-> b2.tag, head |-> head.out,
                     info |-> info.out, frame |-> frame]
       ELSE Raise("ValueError")

\* parse_packet(datagram): the dict returned, or ValueError
parse_packet(datagram) ==
    LET b1 == read_box(datagram, 0) IN
    IF Raised(b1) THEN b1 ELSE
    LET b2 == read_box(datagram, b1.end) IN
    IF Raised(b2) THEN b2 ELSE
    LET b3 == read_box(datagram, b2.end) IN
    IF Raised(b3) THEN b3 ELSE
    LET head == parse_head(b1.payload)
        info == parse_info(b2.payload)
    IN IF Raised(head) THEN head
       ELSE IF Raised(info) THEN info
       ELSE IF b3.tag = TAG.skdf
       THEN LET bones == parse_skdf(b3.payload)
            IN IF Raised(bones) THEN bones
               ELSE [type |-> "skeleton", head_tag |-> b1.tag,
                     info_tag |-> b2.tag, head |-> head.out,
                     info |-> info.out, bones |-> bones.out]
       ELSE IF b3.tag = TAG.fram
       THEN LET frame == parse_fram(b3.payload)
            IN IF Raised(frame) THEN frame
               ELSE [type |-> "frame", head_tag |-> b1.tag,
                     info_tag |-> b2.tag, head |-> head.out,
                     info |-> info.out, frame |-> frame]
       ELSE [type |-> "unknown", tag |-> b3.tag, head |-> head.out,
             info |-> info.out, payload_len |-> Len(b3.payload)]

\* main, lines 235-236: for b in bones: skeleton_cache[b.bone_id] = b
RECURSIVE CacheBones(_, _, _)
CacheBones(cache, bones, i) ==
    IF i > Len(bones) THEN cache
    ELSE CacheBones(Put(cache, bones[i].bone_id, bones[i]), bones, i + 1)

\* a loop whose handler lets the parse error out of main
main_turn_stops(cache, pkt) ==
    IF Raised(pkt)
    THEN [cache |-> cache, pkt |-> pkt, listening |-> FALSE]
    ELSE [cache |-> IF pkt.type = "skeleton"
                    THEN CacheBones(cache, pkt.bones, 1) ELSE cache,
          pkt |-> pkt, listening |-> TRUE]

\* main, lines 225-266: one turn of "while True", pkt being what
\* parse_packet(data) gave or raised.  "except Exception" catches the
\* ValueError of parse_packet and continues; every other branch ends in
\* continue or falls to the end of the body.
main_turn(cache, pkt) ==
    IF Raised(pkt)
    THEN [cache |-> cache, pkt |-> pkt, listening |-> TRUE]
    ELSE [cache |-> IF pkt.type = "skeleton"
                    THEN CacheBones(cache, pkt.bones, 1) ELSE cache,
          pkt |-> pkt, listening |-> TRUE]

\* ------------------------------------------------------------------- inputs
P0 == <<0, 0, 0>>
P3 == <<3, 0, 0>>
P4 == <<0, 4, 0>>
PNaN == <<NaN, 0, 0>>
PHuge == <<0, Huge, 0>>
QId == <<1, 0, 0, 0>>
QY180 == <<0, 0, 1, 0>>

JsonText(d) == [valid |-> TRUE, raw |-> [t |-> "dict", d |-> d]]
BadText == [valid |-> FALSE]
NonObject == [valid |-> TRUE, raw |-> [t |-> "list"]]
Dict(d) == [t |-> "dict", d |-> d]

\* a scoring-format frame (test_protocol.make_player_frame_from_ref)
MotionFrame(lh, rh, q, sig) ==
    [timestamp     |-> 0,
     rotations     |-> [Hips |-> QId, LeftHand |-> q, RightHand |-> q],
     trajectories  |-> [LeftHand |-> lh, RightHand |-> rh],
     rhythm_signal |-> [t |-> "nums", v |-> sig]]

FrameA == MotionFrame(<<P0>>, <<P0>>, QId, <<0, 1, 0>>)
FrameB == MotionFrame(<<P0, P3>>, <<P0>>, QId, <<0, 1, 0>>)
\* frames whose latest hand positions are finite
GoodFrames ==
    {FrameA, FrameB, MotionFrame(<<PNaN, P0>>, <<P0, P0>>, QY180, <<0, 2, 0>>)}

\* frames for which extract_dtw_feature gives None (test_protocol tests 6-8)
FeaturelessFrames ==
    {[timestamp |-> 0],
     MotionFrame(<<>>, <<>>, QId, <<0>>),
     MotionFrame(<<P0, PNaN>>, <<P0, P0>>, QId, <<0, 1, 0>>),
     MotionFrame(<<P3>>, <<PHuge>>, QId, <<0, 1, 0>>),
     [timestamp |-> 0, rotations |-> [Hips |-> QId],
      trajectories |-> [LeftHand |-> <<<<0, 0>>>>, RightHand |-> <<P0>>]]}

ResetMsgs == {[reset |-> TRUE], [command |-> "reset"]}

\* the texts given to process_unity_message
UnityMsgs ==
    {BadText, NonObject}
    \cup {JsonText(d) : d \in ResetMsgs \cup GoodFrames \cup FeaturelessFrames}

RefA == Dict(FrameA)
RefB == Dict(MotionFrame(<<P0>>, <<P0, P4>>, QId, <<0, 1, 0>>))
\* a reference carrying a reset request next to its motion data
RefWithReset ==
    Dict([reset |-> TRUE, command |-> "reset", rotations |-> [Hips |-> QId],
          trajectories |-> [LeftHand |-> <<P0>>, RightHand |-> <<P4>>]])
\* a reference with both keys whose rhythm signal is not numeric
RefTextRhythm ==
    Dict([rotations |-> [Hips |-> QId],
          trajectories |-> [LeftHand |-> <<P0>>, RightHand |-> <<P0>>],
          rhythm_signal |-> [t |-> "text"]])

\* the ref_data given to process_unity_message
RefDatas ==
    {RefA, RefB, RefWithReset, RefTextRhythm,
     [t |-> "none"],
     Dict(MotionFrame(<<P0, PNaN>>, <<P0>>, QId, <<0, 1, 0>>)),
     Dict([timestamp |-> 0]),
     Dict([rotations |-> [Hips |-> <<1, 0>>],
           trajectories |-> [LeftHand |-> <<P0>>, RightHand |-> <<P0>>]])}

\* the argument pairs of process_unity_message
UnityCalls ==
    (UnityMsgs \X {RefA})
    \cup ({JsonText(FrameA), JsonText(FrameB)} \X RefDatas)

\* a raw mocopi bone and frame (test_protocol_2.make_mocopi_frame)
Bone(q, pos) == [t |-> "dict", d |-> [rot_xyzw |-> q, pos_xyz |-> pos]]
RawFrame(l_pos, r_pos) ==
    [fnum |-> 0, time |-> 1063675480,
     bones |-> <<<<"head", Bone(QId, P0)>>, <<"l_hand", Bone(QId, l_pos)>>,
                 <<"r_hand", Bone(QId, r_pos)>>>>]
RawA == JsonText(RawFrame(P0, P0))
RawB == JsonText(RawFrame(P3, P4))
\* a frame whose second hand bone is not an object
RawHalf ==
    JsonText([time |-> 0,
              bones |-> <<<<"l_hand", Bone(QId, P3)>>, <<"r_hand", [t |-> "list"]>>>>])

\* the texts given to process_mocopi_message
RawMsgs ==
    {BadText, NonObject, RawA, RawB, RawHalf,
     JsonText([command |-> "reset"]),
     JsonText([reset |-> TRUE]),
     JsonText(RawFrame(PNaN, P0)),
     JsonText(RawFrame(<<0, 0>>, P0))}

\* the argument pairs of process_mocopi_message
RawCalls ==
    (RawMsgs \X {RawA}) \cup ({RawA, RawB} \X RawMsgs)
    \cup {<<JsonText([command |-> "reset"]), BadText>>}

\* the calls of a session of well-formed frames and reset commands
SessionUnityCalls ==
    {<<JsonText(FrameA), RefA>>, <<JsonText(FrameB), RefB>>,
     <<JsonText([command |-> "reset"]), RefA>>}
SessionRawCalls ==
    {<<RawA, RawA>>, <<RawB, RawA>>, <<JsonText([command |-> "reset"]), RawA>>,
     <<RawA, JsonText([command |-> "reset"])>>}

\* performer and reference given the same snapshot (test_protocol's perfect
\* match), a mismatched pair and a reset command
FrameC == MotionFrame(<<P0, P3>>, <<P4>>, QY180, <<0, 2, 5>>)
FrameShort == MotionFrame(<<P3>>, <<P0>>, QId, <<0>>)
MatchCalls ==
    {<<JsonText(f), Dict(f)>> :
        f \in {FrameA, FrameB, FrameC, FrameShort, [timestamp |-> 0]}}
    \cup {<<JsonText(FrameB), RefB>>, <<JsonText([command |-> "reset"]), RefA>>}
MatchRawCalls == {<<RawA, RawA>>, <<RawB, RawB>>}

\* a long session of frames, some of them failing after a structure was
\* appended to
WearUnityCalls ==
    {<<JsonText(FrameB), RefB>>, <<JsonText(FrameA), RefTextRhythm>>,
     <<BadText, RefA>>}
WearRawCalls == {<<RawA, RawA>>, <<RawB, RawA>>, <<RawB, NonObject>>}

\* a session of scoring calls only: frames with and without usable hands,
\* frames with several samples per hand, and calls failing before and after
\* the features are extracted
RefBadRotation ==
    Dict([rotations |-> [Hips |-> <<1, 0>>],
          trajectories |-> [LeftHand |-> <<P0>>, RightHand |-> <<P0>>]])
ScoringUnityCalls ==
    {<<JsonText(FrameA), RefA>>, <<JsonText(FrameB), RefB>>,
     <<JsonText(FrameC), RefB>>,
     <<JsonText(FrameA), RefTextRhythm>>,
     <<JsonText(FrameB), RefBadRotation>>,
     <<JsonText(MotionFrame(<<P0, PNaN>>, <<P0, P0>>, QId, <<0, 1, 0>>)), RefA>>,
     <<JsonText([command |-> "reset"]), RefA>>}
ScoringRawCalls ==
    {<<RawA, RawA>>, <<RawB, RawA>>, <<JsonText(RawFrame(PNaN, P0)), RawA>>}

\* the frames given to adapt_mocopi_frame directly: two full frames, a frame
\* with unrecognised bones (one of them not an object), a frame whose second
\* hand is not an object, a frame with a malformed position, and a non-object
FrameUnknownBones ==
    Dict([time |-> 0,
          bones |-> <<<<"root", [t |-> "list"]>>, <<"l_hand", Bone(QY180, P4)>>,
                      <<"head", Bone(QId, P3)>>>>])
AdapterFrames ==
    {RawA.raw, RawB.raw, FrameUnknownBones, RawHalf.raw,
     Dict(RawFrame(<<0, 0>>, P3)), NonObject.raw}
\* the (frame, stream) arguments of adapt_mocopi_frame
AdapterCalls ==
    (AdapterFrames \X {"player", "ref"}) \cup {<<RawA.raw, "other">>}

\* feature vectors given to add_frame directly
Feats == {<<>>, <<0, 0>>, <<3, 0, 0>>, <<0, NaN>>, <<Huge, 0>>}

\* SlidingDTW instances handed to compute directly: band radii, features,
\* and pairs of buffers of equal length (the second the first itself,
\* reversed, moved by a constant offset, or a steady sequence)
Bands == {0, 1, 2, Band}
DtwFeats == {<<0, 0>>, <<3, 0>>, <<6, 0>>, <<Big, 0>>}
Offsets == {<<3, 0>>, <<3, 4>>}
SeqsOf(S, n) == UNION {[1..k -> S] : k \in 0..n}
\* float32 addition: a Big component absorbs a small one
PlusF(x, d) == IF x = Big THEN Big ELSE x + d
Shifted(pb, off) ==
    [i \in DOMAIN pb |-> [c \in DOMAIN off |-> PlusF(pb[i][c], off[c])]]
Reversed(pb) == [i \in DOMAIN pb |-> pb[Len(pb) + 1 - i]]
Steady(pb, f) == [i \in DOMAIN pb |-> f]
Partners(pb) ==
    {pb, Reversed(pb)} \cup {Shifted(pb, off) : off \in Offsets}
    \cup {Steady(pb, f) : f \in DtwFeats}
DtwInstances(n) ==
    UNION {{[player_buffer |-> pb, ref_buffer |-> rb, band |-> b] :
               rb \in Partners(pb), b \in Bands} :
           pb \in SeqsOf(DtwFeats, n)}

\* subscores handed to the fusion directly, in thousandths: their weighted
\* sums fall on the grade thresholds and on either side of them
SubscoreValues == {0, 250, 495, 500, 505, 695, 700, 705, 998, 1000}

\* rotation maps handed to compute_pose_score directly: any joints among
\* two of the weight table and one outside it, any value for each, also
\* one that is no quaternion
RotationMaps ==
    UNION {[S -> {QId, QY180, <<1, 0>>}] :
              S \in SUBSET {"Hips", "LeftHand", "Nose"}}

\* datagrams: boxes as read_box documents them, built from the inside out
LE16(n) == <<n % 256, n \div 256>>
LE32(n) == <<n % 256, (n \div 256) % 256, (n \div 65536) % 256, n \div 16777216>>
\* a box whose length field declares L bytes of payload
BoxDeclaring(tag, payload, L) == LE32(L) \o tag \o payload
Box(tag, payload) == BoxDeclaring(tag, payload, Len(payload))
\* the 28 bytes of seven floats, and a run of k bytes that is no box
TranBytes(k) == [i \in 1..28 |-> (7 * k + i) % 256]
Stray(k) == [i \in 1..k |-> 255]
Bnid(id) == Box(TAG.bnid, LE16(id))
Pbid(id) == Box(TAG.pbid, LE16(id))
Tran(k) == Box(TAG.tran, TranBytes(k))
Bndt(id, parent) == Box(TAG.bndt, Bnid(id) \o Pbid(parent) \o Tran(id))
BndtNoRest(id, parent) == Box(TAG.bndt, Bnid(id) \o Pbid(parent))
Btdt(id) == Box(TAG.btdt, Bnid(id) \o Tran(id + 1))
Skdf(bndts) == Box(TAG.skdf, Box(TAG.bons, bndts))
Fram(n, t, btdts) ==
    Box(TAG.fram, Box(TAG.fnum, LE32(n)) \o Box(TAG.time, LE32(t))
                  \o Box(TAG.btrs, btdts))
HeadBox == Box(TAG.head, Box(TAG.ftyp, <<115, 111, 110, 121>>)
                         \o Box(TAG.vrsn, <<1>>))
InfoBox == Box(TAG.info, Box(TAG.ipad, <<1, 0, 0, 127, 0, 0, 0, 0>>)
                         \o Box(TAG.rcvp, LE16(12351)))
OtherTag == <<120, 121, 122, 119>>

\* A datagram with what is known of it by construction: third is the tag of
\* its third box, ids the bone ids of a skeleton packet, fault what is wrong
\* with a box the decoder reaches ("header": fewer than 8 bytes of header,
\* "length": declared length beyond the bytes left, "missing": a mandatory
\* field absent, "short_tran": a tran payload under 28 bytes), at the depth
\* of nesting given, in the box tagged where.
Datagram(bytes, third, ids, fault, depth, where) ==
    [bytes |-> bytes, third |-> third, ids |-> ids, fault |-> fault,
     depth |-> depth, where |-> where, bare |-> {}]
\* d, its bones of the ids given being without a rest pose
WithBare(d, ids) == [d EXCEPT !.bare = ids]
Packet(third_box, third, ids, fault, depth, where) ==
    Datagram(HeadBox \o InfoBox \o third_box, third, ids, fault, depth, where)

\* well-formed packets; bone 1 of the first skeleton has no rest pose; the
\* last two carry bytes the decoder never reads as boxes
GoodDatagrams ==
    { WithBare(Packet(Skdf(Bndt(0, 0) \o BndtNoRest(1, 0)), "skdf", {0, 1},
                      "none", 0, "none"), {1}),
      Packet(Skdf(Bndt(1, 1) \o Bndt(2, 1)), "skdf", {1, 2},
             "none", 0, "none"),
      Packet(Skdf(<<>>), "skdf", {}, "none", 0, "none"),
      Packet(Fram(7, 100, Btdt(0) \o Btdt(1)), "fram", {}, "none", 0, "none"),
      Packet(Box(OtherTag, Stray(3)), "other", {}, "none", 0, "none"),
      Packet(Box(TAG.skdf, Box(OtherTag, Stray(5))
                           \o Box(TAG.bons, Bndt(2, 2))) \o Stray(2),
             "skdf", {2}, "none", 0, "none") }

\* a box the decoder reaches is truncated
TruncatedDatagrams ==
    { Datagram(Stray(5), "none", {}, "header", 0, "top"),
      Datagram(HeadBox \o InfoBox \o Stray(4), "none", {},
               "header", 0, "top"),
      Datagram(HeadBox \o InfoBox, "none", {}, "header", 0, "top"),
      Packet(BoxDeclaring(TAG.skdf, Box(TAG.bons, Bndt(0, 0)), 200),
             "skdf", {0}, "length", 0, "top"),
      Packet(BoxDeclaring(OtherTag, Stray(3), 4),
             "other", {}, "length", 0, "top"),
      Packet(Box(TAG.skdf, Box(TAG.bons, Bndt(0, 0)) \o Stray(3)),
             "skdf", {0}, "header", 1, "skdf"),
      Packet(Skdf(Bndt(0, 0) \o BoxDeclaring(TAG.bndt, Bnid(1) \o Pbid(0), 21)),
             "skdf", {0, 1}, "length", 2, "bons"),
      Packet(Skdf(Bndt(0, 0)
                  \o Box(TAG.bndt, Bnid(1) \o Pbid(0) \o Stray(5))),
             "skdf", {0, 1}, "header", 3, "bndt"),
      Packet(Fram(7, 100, Btdt(0)
                  \o Box(TAG.btdt, Bnid(1)
                         \o BoxDeclaring(TAG.tran, TranBytes(1), 29))),
             "fram", {}, "length", 3, "btdt"),
      Packet(Box(TAG.fram, Box(TAG.fnum, LE32(7)) \o Stray(7)),
             "fram", {}, "header", 1, "fram") }

\* a mandatory field is absent, or a tran payload is short
IncompleteDatagrams ==
    { Packet(Skdf(Bndt(0, 0) \o Box(TAG.bndt, Pbid(0) \o Tran(1))),
             "skdf", {0}, "missing", 3, "bndt.bnid"),
      Packet(Skdf(Box(TAG.bndt, Bnid(1) \o Tran(1))),
             "skdf", {1}, "missing", 3, "bndt.pbid"),
      Packet(Fram(7, 100, Box(TAG.btdt, Tran(1))),
             "fram", {}, "missing", 3, "btdt.bnid"),
      Packet(Fram(7, 100, Btdt(0) \o Box(TAG.btdt, Bnid(1))),
             "fram", {}, "missing", 3, "btdt.tran"),
      Packet(Skdf(Box(TAG.bndt, Bnid(1) \o Pbid(0)
                                \o Box(TAG.tran, Stray(27)))),
             "skdf", {1}, "short_tran", 3, "bndt"),
      Packet(Fram(7, 100, Box(TAG.btdt, Bnid(1) \o Box(TAG.tran, <<>>))),
             "fram", {}, "short_tran", 3, "btdt") }

\* a third tag that is neither skdf nor fram: a third payload that is no box
\* sequence, then a head and an info payload that are none
UnknownDatagrams ==
    { Packet(Box(OtherTag, Box(TAG.bons, Stray(9)) \o Stray(2)),
             "other", {}, "none", 0, "none"),
      Datagram(Box(TAG.head, Stray(3)) \o InfoBox \o Box(OtherTag, <<>>),
               "other", {}, "header", 1, "head"),
      Datagram(HeadBox \o Box(TAG.info, BoxDeclaring(TAG.rcvp, LE16(1), 3))
                       \o Box(OtherTag, <<>>),
               "other", {}, "length", 1, "info") }

Datagrams ==
    GoodDatagrams \cup TruncatedDatagrams \cup IncompleteDatagrams
    \cup UnknownDatagrams

\* byte buffers handed to iter_boxes: whole datagrams, payloads found inside
\* them, runs of boxes of length 0, and buffers that are no box sequence
RECURSIVE EmptyBoxes(_)
EmptyBoxes(k) == IF k = 0 THEN <<>> ELSE Box(OtherTag, <<>>) \o EmptyBoxes(k - 1)
Payloads ==
    {d.bytes : d \in Datagrams}
    \cup {EmptyBoxes(k) : k \in 0..3}
    \cup {Stray(k) : k \in {1, 7, 8, 9}}
    \cup {Bndt(0, 0) \o BndtNoRest(1, 0),
          Bnid(1) \o Pbid(0) \o Tran(1),
          Bnid(1) \o Box(TAG.tran, <<>>) \o Pbid(0),
          EmptyBoxes(2) \o Bnid(1) \o EmptyBoxes(1),
          Box(OtherTag, <<>>) \o BoxDeclaring(OtherTag, <<>>, 1),
          Bnid(1) \o Stray(8),
          Box(TAG.fnum, LE32(7)) \o Box(TAG.time, LE32(100))
              \o Box(TAG.btrs, Btdt(0) \o Btdt(1))}

\* ------------------------------------------------- what a call is observed by
\* the reset requests a parsed input carries: the flag and the command
HasResetFlag(v) == v.t = "dict" /\ Get(v.d, "reset", FALSE) = TRUE
HasResetCommand(v) == v.t = "dict" /\ Get(v.d, "command", "") = "reset"
Parsed(text) == IF text.valid THEN text.raw ELSE [t |-> "none"]

\* the hands of a motion snapshot give no feature: the LeftHand or RightHand
\* trajectory is absent, empty, or has a coordinate in its latest sample that
\* is not a finite float32
NoHands(d) ==
    LET traj == Get(d, "trajectories", EmptyDict)
        Bad(j) == \/ j \notin DOMAIN traj
                  \/ Len(traj[j]) = 0
                  \/ /\ Len(traj[j]) > 0
                     /\ \E c \in DOMAIN traj[j][Len(traj[j])] :
                           traj[j][Len(traj[j])][c] \in {NaN, Inf, Huge}
    IN  Bad("LeftHand") \/ Bad("RightHand")

\* the last LeftHand sample of a snapshot followed by its last RightHand
\* sample, <<>> when a hand has none
LatestHands(v) ==
    LET traj == IF v.t = "dict" THEN Get(v.d, "trajectories", EmptyDict)
                ELSE EmptyDict
    IN  IF "LeftHand" \notin DOMAIN traj \/ "RightHand" \notin DOMAIN traj
        THEN <<>>
        ELSE IF Len(traj["LeftHand"]) = 0 \/ Len(traj["RightHand"]) = 0
        THEN <<>>
        ELSE traj["LeftHand"][Len(traj["LeftHand"])]
             \o traj["RightHand"][Len(traj["RightHand"])]

\* a motion snapshot is well formed: every rotation has four components and
\* the rhythm signal is numeric
WellFormed(v) ==
    /\ v.t = "dict"
    /\ \A j \in DOMAIN Get(v.d, "rotations", EmptyDict) :
          Len(v.d.rotations[j]) = 4
    /\ Get(v.d, "rhythm_signal", NoRhythm).t = "nums"

\* a motion snapshot carries everything the three scorers read: finite latest
\* hand positions, a rotation for a weighted joint, every rotation a unit
\* quaternion that normalises exactly (one component +-1, the others 0), and
\* a rhythm signal of at least two samples
Complete(v) ==
    /\ WellFormed(v)
    /\ ~NoHands(v.d)
    /\ \A j \in DOMAIN Get(v.d, "trajectories", EmptyDict) :
          \A i \in DOMAIN v.d.trajectories[j] : Len(v.d.trajectories[j][i]) = 3
    /\ \E j \in DOMAIN Get(v.d, "rotations", EmptyDict) :
          j \in DOMAIN JOINT_WEIGHTS
    /\ \A j \in DOMAIN Get(v.d, "rotations", EmptyDict) :
          /\ AllFinite(F32Vec(v.d.rotations[j]))
          /\ SumSq(v.d.rotations[j], 1) = 1
    /\ Len(Get(v.d, "rhythm_signal", NoRhythm).v) >= 2

\* a raw frame is well formed: an object whose bones are objects
WellFormedRaw(v) ==
    /\ v.t = "dict"
    /\ \A i \in DOMAIN Get(v.d, "bones", <<>>) : v.d.bones[i][2].t = "dict"

\* the same for a raw frame: a hand bone absent, malformed or non-finite
NoRawHands(d) ==
    LET bones == Get(d, "bones", <<>>)
        Good(name) == \E i \in DOMAIN bones :
                         /\ bones[i][1] = name
                         /\ bones[i][2].t = "dict"
                         /\ Len(Get(bones[i][2].d, "rot_xyzw", <<>>)) = 4
                         /\ Len(Get(bones[i][2].d, "pos_xyz", <<>>)) = 3
                         /\ \A c \in 1..3 :
                              bones[i][2].d.pos_xyz[c] \notin {NaN, Inf, Huge}
    IN  ~(Good("l_hand") /\ Good("r_hand"))

\* the bones the adapter recognises and the joints they are stored under
RecognisedBones == {"l_hand", "r_hand"}
JointOf(bone) == IF bone = "l_hand" THEN "LeftHand" ELSE "RightHand"
\* a recognised bone carrying a rotation of 4 and a position of 3 components
Usable(bone) ==
    /\ bone[1] \in RecognisedBones
    /\ bone[2].t = "dict"
    /\ Len(Get(bone[2].d, "rot_xyzw", <<>>)) = 4
    /\ Len(Get(bone[2].d, "pos_xyz", <<>>)) = 3
BonesOf(frame) == IF frame.t = "dict" THEN Get(frame.d, "bones", <<>>) ELSE <<>>

\* the frame without its unrecognised bones
RECURSIVE OnlyRecognised(_)
OnlyRecognised(bones) ==
    IF bones = <<>> THEN <<>>
    ELSE (IF Head(bones)[1] \in RecognisedBones THEN <<Head(bones)>> ELSE <<>>)
         \o OnlyRecognised(Tail(bones))
Stripped(frame) ==
    IF frame.t = "dict" /\ "bones" \in DOMAIN frame.d
    THEN [frame EXCEPT !.d.bones = OnlyRecognised(frame.d.bones)]
    ELSE frame

\* the positions appended per joint: log with those of bones[i..], up to the
\* first recognised bone that is not an object
RECURSIVE LogBones(_, _, _)
LogBones(log, bones, i) ==
    IF i > Len(bones) THEN log
    ELSE IF bones[i][1] \in RecognisedBones /\ bones[i][2].t # "dict" THEN log
    ELSE IF Usable(bones[i])
    THEN LogBones(Put(log, JointOf(bones[i][1]),
                      Append(Get(log, JointOf(bones[i][1]), <<>>),
                             bones[i][2].d.pos_xyz)),
                  bones, i + 1)
    ELSE LogBones(log, bones, i + 1)
LogAfter(log, frame, stream) ==
    IF stream \in DOMAIN log
    THEN [log EXCEPT ![stream] = LogBones(log[stream], BonesOf(frame), 1)]
    ELSE log

\* -------------------------------------------------------------------- state
VARIABLES
    dtw_trajectory,  \* main.dtw_trajectory: [player_buffer, ref_buffer]
    histories,       \* mocopi_adapter._histories
    result,          \* the value returned by the last call
    last_call,       \* observations of the last call
    accepted,        \* history: the feature pairs accepted since the last reset
    sessions,        \* history: the state each session would hold on its own
    skeleton_cache,  \* receiver.main: skeleton_cache, bone id -> SkeletonBone
    listening,       \* receiver.main: the "while True" loop is still running
    calls            \* number of calls made

vars ==
    <<dtw_trajectory, histories, result, last_call, accepted, sessions,
      skeleton_cache, listening, calls>>

\* the independent sessions (performer+reference pairings) of one process
Sessions == {"A", "B"}

State == [dtw |-> dtw_trajectory, histories |-> histories]

NoRequest == [player_flag |-> FALSE, player_command |-> FALSE,
              ref_flag |-> FALSE, ref_command |-> FALSE]
NoCall ==
    [op |-> "init", parsed |-> TRUE, request |-> NoRequest, no_hands |-> FALSE,
     well_formed |-> TRUE, is_object |-> TRUE, fresh |-> [none |-> TRUE],
     session |-> "none", alone |-> [none |-> TRUE], after_reset |-> "no",
     identical |-> FALSE, complete |-> FALSE, streak |-> 0, evicted |-> FALSE,
     frame |-> [t |-> "none"], stream |-> "none", without |-> [none |-> TRUE],
     log |-> EmptyHistories,
     cleared |-> FALSE, dtw_same |-> TRUE, hist_same |-> TRUE,
     datagram |-> [fault |-> "none"], cached |-> EmptyDict,
     unfaulted |-> [cache |-> EmptyDict, pkt |-> [none |-> TRUE],
                    dropped |-> 0],
     instance |-> [player_buffer |-> <<>>, ref_buffer |-> <<>>, band |-> Band],
     rotations |-> [player |-> EmptyDict, ref |-> EmptyDict],
     fed |-> <<>>, latest |-> [p |-> <<>>, r |-> <<>>]]

Init ==
    /\ dtw_trajectory = NewSlidingDTW
    /\ histories = EmptyHistories
    /\ result = [none |-> TRUE]
    /\ last_call = NoCall
    /\ accepted = <<>>
    /\ sessions = [s \in Sessions |-> NewState]
    /\ skeleton_cache = EmptyDict
    /\ listening = TRUE
    /\ calls = 0

\* the pair add_frame stores for (player_feat, ref_feat): both truncated to
\* the shared dimension and converted to float32
Stored(f) ==
    LET d == Min(Len(f.p), Len(f.r))
    IN  [p |-> SubSeq(F32Vec(f.p), 1, d), r |-> SubSeq(F32Vec(f.r), 1, d)]
\* a pair add_frame is to keep: non-empty and finite
Acceptable(f) ==
    Len(Stored(f).p) > 0 /\ AllFinite(Stored(f).p) /\ AllFinite(Stored(f).r)
RECURSIVE AcceptedOf(_)
AcceptedOf(fed) ==
    IF fed = <<>> THEN <<>>
    ELSE (IF Acceptable(Head(fed)) THEN <<Stored(Head(fed))>> ELSE <<>>)
         \o AcceptedOf(Tail(fed))

\* a structure that was full before a call differs after it
FullAndChanged(old, new) == Len(old) = WINDOW_SIZE /\ new # old
Evicted(old, new) ==
    \/ FullAndChanged(old.dtw.player_buffer, new.dtw.player_buffer)
    \/ \E s \in DOMAIN old.histories : \E j \in DOMAIN old.histories[s] :
          /\ j \in DOMAIN new.histories[s]
          /\ FullAndChanged(old.histories[s][j], new.histories[s][j])

\* the effect of a call that returned out = [st, res, fed]; seen holds the
\* observations of its arguments
Returns(out, seen) ==
    /\ dtw_trajectory' = out.st.dtw
    /\ histories' = out.st.histories
    /\ result' = out.res
    /\ last_call' =
         [seen EXCEPT
             !.after_reset =
                 IF result = ResetAck \/ last_call.op = "reset_state"
                 THEN (IF last_call.cleared THEN "cleared" ELSE "empty")
                 ELSE "no",
             !.cleared = /\ out.res = ResetAck \/ seen.op = "reset_state"
                         /\ State # NewState,
             !.evicted = Evicted(State, out.st),
             !.log =
                 IF \/ out.res = ResetAck
                    \/ seen.op \in {"reset_state", "reset_adapter_state"}
                 THEN EmptyHistories
                 ELSE IF seen.op = "adapt_mocopi_frame" THEN seen.log
                 ELSE last_call.log,
             !.streak =
                 IF out.res = ResetAck \/ seen.op = "reset_state" THEN 0
                 ELSE IF seen.identical /\ last_call.streak >= 0
                 THEN Min(last_call.streak + 1, 2)
                 ELSE -1,
             !.dtw_same = (out.st.dtw = dtw_trajectory),
             !.hist_same = (out.st.histories = histories),
             !.fed = IF seen.op \in {"process_unity_message",
                                     "process_mocopi_message"}
                     THEN out.fed ELSE <<>>]
    /\ accepted' = IF out.res = ResetAck \/ seen.op = "reset_state" THEN <<>>
                   ELSE accepted \o AcceptedOf(out.fed)
    /\ calls' = calls + 1

\* a caller invokes process_unity_message(json_string, ref_data)
UnityCall(inputs, bound) ==
    /\ calls < bound
    /\ UNCHANGED <<sessions, skeleton_cache, listening>>
    /\ \E c \in inputs :
       \E out \in {process_unity_message(State, c[1], c[2])},
          fresh \in {process_unity_message(NewState, c[1], c[2])} :
          Returns(out,
                  [NoCall EXCEPT
                      !.op = "process_unity_message",
                      !.parsed = c[1].valid,
                      !.request =
                          [player_flag    |-> HasResetFlag(Parsed(c[1])),
                           player_command |-> HasResetCommand(Parsed(c[1])),
                           ref_flag       |-> HasResetFlag(c[2]),
                           ref_command    |-> HasResetCommand(c[2])],
                      !.no_hands =
                          \/ Parsed(c[1]).t = "dict" /\ NoHands(Parsed(c[1]).d)
                          \/ c[2].t = "dict" /\ NoHands(c[2].d),
                      !.well_formed =
                          WellFormed(Parsed(c[1])) /\ WellFormed(c[2]),
                      !.is_object = (Parsed(c[1]).t = "dict"),
                      !.identical = (Parsed(c[1]) = c[2]),
                      !.complete = Complete(Parsed(c[1])) /\ Complete(c[2]),
                      !.latest = [p |-> LatestHands(Parsed(c[1])),
                                  r |-> LatestHands(c[2])],
                      !.fresh = fresh.res])

\* a caller invokes process_mocopi_message(player_json, ref_json)
MocopiCall(inputs, bound) ==
    /\ calls < bound
    /\ UNCHANGED <<sessions, skeleton_cache, listening>>
    /\ \E c \in inputs :
       \E out \in {process_mocopi_message(State, c[1], c[2])},
          fresh \in {process_mocopi_message(NewState, c[1], c[2])} :
          Returns(out,
                  [NoCall EXCEPT
                      !.op = "process_mocopi_message",
                      !.parsed = c[1].valid /\ c[2].valid,
                      !.request =
                          [player_flag    |-> HasResetFlag(Parsed(c[1])),
                           player_command |-> HasResetCommand(Parsed(c[1])),
                           ref_flag       |-> HasResetFlag(Parsed(c[2])),
                           ref_command    |-> HasResetCommand(Parsed(c[2]))],
                      !.no_hands =
                          \/ Parsed(c[1]).t = "dict" /\ NoRawHands(Parsed(c[1]).d)
                          \/ Parsed(c[2]).t = "dict" /\ NoRawHands(Parsed(c[2]).d),
                      !.well_formed =
                          WellFormedRaw(Parsed(c[1])) /\ WellFormedRaw(Parsed(c[2])),
                      !.is_object = /\ Parsed(c[1]).t = "dict"
                                    /\ Parsed(c[2]).t = "dict",
                      !.identical = (c[1] = c[2]),
                      !.fresh = fresh.res])

\* a caller invokes dtw_trajectory.add_frame(player_feat, ref_feat)
AddFrameCall(bound) ==
    /\ calls < bound
    /\ UNCHANGED <<sessions, skeleton_cache, listening>>
    /\ \E pf \in Feats, rf \in Feats :
          Returns([st  |-> [State EXCEPT !.dtw = AddFrame(dtw_trajectory, pf, rf)],
                   res |-> [none |-> TRUE],
                   fed |-> <<[p |-> pf, r |-> rf]>>],
                  [NoCall EXCEPT !.op = "add_frame"])

\* a caller invokes reset_state() (test_protocol.run_sequence_test)
ResetStateCall(bound) ==
    /\ calls < bound
    /\ UNCHANGED <<sessions, skeleton_cache, listening>>
    /\ Returns([st |-> reset_state(State), res |-> [none |-> TRUE], fed |-> <<>>],
               [NoCall EXCEPT !.op = "reset_state"])

\* a caller invokes reset_adapter_state()
ResetAdapterCall(bound) ==
    /\ calls < bound
    /\ UNCHANGED <<sessions, skeleton_cache, listening>>
    /\ Returns([st  |-> [State EXCEPT
                            !.histories = reset_adapter_state(histories)],
                res |-> [none |-> TRUE], fed |-> <<>>],
               [NoCall EXCEPT !.op = "reset_adapter_state"])

\* a caller invokes adapt_mocopi_frame(mocopi_frame, stream, WINDOW_SIZE);
\* an exception reaches the caller.  without is the answer for the frame
\* stripped of its unrecognised bones; log records the positions appended.
AdaptCall(bound) ==
    /\ calls < bound
    /\ UNCHANGED <<sessions, skeleton_cache, listening>>
    /\ \E c \in AdapterCalls :
       \E a \in {adapt_mocopi_frame(histories, c[1], c[2], WINDOW_SIZE)},
          w \in {adapt_mocopi_frame(histories, Stripped(c[1]), c[2],
                                    WINDOW_SIZE)} :
          Returns([st  |-> [State EXCEPT !.histories = a.histories],
                   res |-> IF a.raised
                           THEN Raise(IF c[2] \in DOMAIN histories
                                      THEN "AttributeError" ELSE "ValueError")
                           ELSE a.out,
                   fed |-> <<>>],
                  [NoCall EXCEPT
                      !.op = "adapt_mocopi_frame",
                      !.frame = c[1],
                      !.stream = c[2],
                      !.without = [raised |-> w.raised, out |-> w.out,
                                   histories |-> w.histories],
                      !.log = LogAfter(last_call.log, c[1], c[2])])

\* one turn of the loop of receiver.main on the datagram recvfrom returns:
\* a parse error is reported and the loop goes on; the bones of a skeleton
\* packet are stored in the cache; a frame or an unknown packet is printed.
\* cached records the cache as it was before; unfaulted is the cache and
\* the last packet of a loop that is sent the faultless datagrams only,
\* with the number of datagrams it was spared.
Receive(bound) ==
    /\ calls < bound
    /\ listening
    /\ \E d \in Datagrams :
       \E pkt \in {parse_packet(d.bytes)} :
       \E t \in {main_turn(skeleton_cache, pkt)},
          u \in {main_turn(last_call.unfaulted.cache, pkt)} :
          /\ skeleton_cache' = t.cache
          /\ listening' = t.listening
          /\ result' = t.pkt
          /\ last_call' =
                [NoCall EXCEPT
                    !.op = "receive", !.datagram = d,
                    !.cached = skeleton_cache,
                    !.unfaulted =
                        IF d.fault = "none"
                        THEN [cache |-> u.cache, pkt |-> u.pkt,
                              dropped |-> last_call.unfaulted.dropped]
                        ELSE [last_call.unfaulted EXCEPT
                                 !.dropped = last_call.unfaulted.dropped + 1]]
    /\ calls' = calls + 1
    /\ UNCHANGED <<dtw_trajectory, histories, accepted, sessions>>

\* a caller invokes compute() on a SlidingDTW instance of its own, built
\* with any band radius and holding any buffers of equal length
ComputeCall(bound) ==
    /\ calls = 0
    /\ \E x \in DtwInstances(bound) :
          /\ result' = [cost |-> Compute(x, x.band)]
          /\ last_call' = [NoCall EXCEPT !.op = "compute", !.instance = x]
    /\ calls' = calls + 1
    /\ UNCHANGED <<dtw_trajectory, histories, accepted, sessions,
                   skeleton_cache, listening>>

\* main.py lines 95-112 on any three subscores: weighted sum, clip, grade
\* and the result dict
FuseCall ==
    /\ calls = 0
    /\ \E pose \in SubscoreValues, trajectory \in SubscoreValues,
          rhythm \in SubscoreValues :
          result' = ScoreResult(pose, trajectory, rhythm, TRUE, 0)
    /\ last_call' = [NoCall EXCEPT !.op = "fuse"]
    /\ calls' = calls + 1
    /\ UNCHANGED <<dtw_trajectory, histories, accepted, sessions,
                   skeleton_cache, listening>>

\* a caller invokes compute_pose_score(player_rot, ref_rot)
PoseCall ==
    /\ calls = 0
    /\ \E player_rot \in RotationMaps, ref_rot \in RotationMaps :
          /\ result' = IF PoseRaises(player_rot, ref_rot)
                        THEN Raise("ValueError")
                        ELSE [pose |-> compute_pose_score(player_rot, ref_rot)]
          /\ last_call' = [NoCall EXCEPT
                              !.op = "compute_pose_score",
                              !.rotations = [player |-> player_rot,
                                             ref |-> ref_rot]]
    /\ calls' = calls + 1
    /\ UNCHANGED <<dtw_trajectory, histories, accepted, sessions,
                   skeleton_cache, listening>>

\* a caller begins "for tag, data in iter_boxes(payload)": off = 0
IterStart(bound) ==
    /\ calls < bound
    /\ last_call.op = "iter_boxes" => result.status # "running"
    /\ \E payload \in Payloads :
          result' = [buf |-> payload, off |-> 0, boxes |-> <<>>,
                     status |-> "running"]
    /\ last_call' = [NoCall EXCEPT !.op = "iter_boxes"]
    /\ calls' = calls + 1
    /\ UNCHANGED <<dtw_trajectory, histories, accepted, sessions,
                   skeleton_cache, listening>>

\* one turn of the while loop of iter_boxes: the test "off < len(payload)",
\* then read_box, which raises out of the generator or yields a box and
\* moves off
IterStep ==
    /\ last_call.op = "iter_boxes"
    /\ result.status = "running"
    /\ \E buf \in {result.buf}, off \in {result.off} :
          IF ~(off < Len(buf))
          THEN result' = [result EXCEPT !.status = "ended"]
          ELSE \E b \in {read_box(buf, off)} :
                  result' =
                      IF Raised(b)
                      THEN [result EXCEPT !.status = "raised"]
                      ELSE [result EXCEPT
                               !.off = b.end,
                               !.boxes = Append(@, <<b.tag, b.payload>>)]
    /\ UNCHANGED <<dtw_trajectory, histories, last_call, accepted, sessions,
                   skeleton_cache, listening, calls>>

\* any caller, any input
Next ==
    \/ UnityCall(UnityCalls, MaxCalls)
    \/ MocopiCall(RawCalls, MaxCalls)
    \/ AddFrameCall(MaxCalls)
    \/ ResetStateCall(MaxCalls)
    \/ ResetAdapterCall(MaxCalls)

Spec == Init /\ [][Next]_vars

\* a longer session of well-formed frames and reset commands
NextSession ==
    \/ UnityCall(SessionUnityCalls, MaxFrames)
    \/ MocopiCall(SessionRawCalls, MaxFrames)
    \/ AddFrameCall(MaxFrames)
    \/ ResetStateCall(MaxFrames)
    \/ ResetAdapterCall(MaxFrames)

SpecSession == Init /\ [][NextSession]_vars

\* session s calls process_unity_message: the call runs on the module state;
\* alone is what it returns on the state s would hold on its own
SessionUnityCall(s) ==
    /\ calls < MaxFrames
    /\ \E c \in SessionUnityCalls :
       \E out \in {process_unity_message(State, c[1], c[2])},
          own \in {process_unity_message(sessions[s], c[1], c[2])} :
          /\ Returns(out,
                     [NoCall EXCEPT
                         !.op = "process_unity_message",
                         !.session = s,
                         !.alone = own.res])
          /\ sessions' = [sessions EXCEPT ![s] = own.st]
          /\ UNCHANGED <<skeleton_cache, listening>>

\* session s calls process_mocopi_message
SessionMocopiCall(s) ==
    /\ calls < MaxFrames
    /\ \E c \in SessionRawCalls :
       \E out \in {process_mocopi_message(State, c[1], c[2])},
          own \in {process_mocopi_message(sessions[s], c[1], c[2])} :
          /\ Returns(out,
                     [NoCall EXCEPT
                         !.op = "process_mocopi_message",
                         !.session = s,
                         !.alone = own.res])
          /\ sessions' = [sessions EXCEPT ![s] = own.st]
          /\ UNCHANGED <<skeleton_cache, listening>>

\* two sessions served by one process, their calls interleaved
NextSessions ==
    \E s \in Sessions : SessionUnityCall(s) \/ SessionMocopiCall(s)

SpecSessions == Init /\ [][NextSessions]_vars

\* sessions in which performer and reference mostly receive the same snapshot
NextMatch ==
    \/ UnityCall(MatchCalls, MaxFrames)
    \/ MocopiCall(MatchRawCalls, MaxFrames)

SpecMatch == Init /\ [][NextMatch]_vars

\* a session long enough to evict, with failing calls in it
NextWear ==
    \/ UnityCall(WearUnityCalls, MaxFrames)
    \/ MocopiCall(WearRawCalls, MaxFrames)
    \/ AddFrameCall(MaxFrames)

SpecWear == Init /\ [][NextWear]_vars

\* a session made of scoring calls and resets, nothing else touching the
\* buffers
NextScoring ==
    \/ UnityCall(ScoringUnityCalls, MaxFrames)
    \/ MocopiCall(ScoringRawCalls, MaxFrames)
    \/ ResetStateCall(MaxFrames)

SpecScoring == Init /\ [][NextScoring]_vars

\* the adapter called on its own
NextAdapter ==
    \/ AdaptCall(MaxFrames)
    \/ ResetAdapterCall(MaxFrames)

SpecAdapter == Init /\ [][NextAdapter]_vars

\* the adapter called between the scoring calls of a session
NextAdapterInSession ==
    \/ AdaptCall(MaxFrames)
    \/ UnityCall({<<JsonText(FrameB), RefB>>}, MaxFrames)

SpecAdapterInSession == Init /\ [][NextAdapterInSession]_vars

\* the ingest loop of the receiver on any datagram
NextReceiver ==
    \/ Receive(MaxFrames)

SpecReceiver == Init /\ [][NextReceiver]_vars

\* the ingest loop, scheduled whenever a datagram is waiting
NextReceiverLive ==
    \/ Receive(MaxDatagrams)

SpecReceiverLive ==
    Init /\ [][NextReceiverLive]_vars /\ WF_vars(Receive(MaxDatagrams))

\* the box iterator run to its end, one buffer after the other
NextDecode ==
    \/ IterStart(MaxCalls)
    \/ IterStep

SpecDecode == Init /\ [][NextDecode]_vars /\ WF_vars(IterStep)

\* the functions of the scorers, each called on its own
NextFunctions ==
    \/ ComputeCall(MaxBuffer)
    \/ FuseCall
    \/ PoseCall

SpecFunctions == Init /\ [][NextFunctions]_vars

\* ------------------------------------------------------------------- claims
\* the last call was made to one of the two scoring entries
ScoringOp ==
    last_call.op \in {"process_unity_message", "process_mocopi_message"}

\* the last n elements of s
Recent(s, n) == SubSeq(s, Len(s) - n + 1, Len(s))
PlayerOf(log) == [i \in DOMAIN log |-> log[i].p]
RefOf(log) == [i \in DOMAIN log |-> log[i].r]

\* C1: a call to either scoring entry that returns ok=false leaves both
\* streams' JointHistory and both AlignmentBuffers exactly as they were
\* before the call.
C1_FailedCallLeavesStateUntouched ==
    (ScoringOp /\ result.ok = FALSE)
        => (last_call.dtw_same /\ last_call.hist_same)

\* C2: a reset command on either entry returns {ok: true, reset: true} and
\* leaves both AlignmentBuffers and every JointHistory empty, and the scoring
\* call that follows a reset returns what a fresh session returns for the
\* same frame (its dtw_cost and trajectory included), whatever had been
\* accumulated before the reset.
C2_ResetGivesFreshSession ==
    /\ (/\ ScoringOp
        /\ last_call.parsed
        /\ \/ last_call.request.player_command
           \/ /\ last_call.op = "process_mocopi_message"
              /\ last_call.request.ref_command)
           => (result = ResetAck /\ State = NewState)
    /\ (ScoringOp /\ last_call.after_reset # "no")
           => result = last_call.fresh

\* a frame scored right after a reset that cleared a non-empty state, with a
\* positive trajectory cost
C2_ScoredAfterClearingReset ==
    /\ ScoringOp
    /\ last_call.after_reset = "cleared"
    /\ result # ResetAck
    /\ result.ok
    /\ result.trajectory_valid
    /\ result.dtw_cost > 0

\* C3 as stated: on both entries a reset request (flag or command) in either
\* input, performer or reference, clears all state and is acknowledged.
C3_AnyRequestInEitherInputResets ==
    (/\ ScoringOp
     /\ \/ last_call.request.player_flag
        \/ last_call.request.player_command
        \/ last_call.request.ref_flag
        \/ last_call.request.ref_command)
        => (result = ResetAck /\ State = NewState)

\* the reset requests the entries recognise: the direct entry reads the flag
\* and the command of the performer input only; the raw entry reads the
\* command (not the flag) of either packet, once both packets have parsed
RecognisedRequest ==
    \/ /\ last_call.op = "process_unity_message"
       /\ \/ last_call.request.player_flag
          \/ last_call.request.player_command
    \/ /\ last_call.op = "process_mocopi_message"
       /\ last_call.parsed
       /\ \/ last_call.request.player_command
          \/ last_call.request.ref_command

\* C3, amended: a scoring call short-circuits exactly when it carries a
\* recognised reset request; it then clears all state, returns the
\* acknowledgment and appends no sample to any JointHistory or
\* AlignmentBuffer.
C3_RecognisedRequestResets ==
    ScoringOp =>
        /\ RecognisedRequest <=> (result = ResetAck)
        /\ RecognisedRequest => (State = NewState /\ accepted = <<>>)

\* the raw entry was reset by a command in the reference packet alone, with
\* state to clear
C3_ResetByRefCommand ==
    /\ last_call.op = "process_mocopi_message"
    /\ last_call.request.ref_command
    /\ ~last_call.request.player_command
    /\ result = ResetAck
    /\ last_call.cleared

\* C4: in every reachable state the performer AlignmentBuffer and the
\* reference AlignmentBuffer have equal length.
C4_BuffersEqualLength ==
    Len(dtw_trajectory.player_buffer) = Len(dtw_trajectory.ref_buffer)

\* the window is full after an eviction
C4_FullAfterEviction ==
    /\ Len(accepted) > WINDOW_SIZE
    /\ Len(dtw_trajectory.player_buffer) = WINDOW_SIZE
    /\ Len(dtw_trajectory.ref_buffer) = WINDOW_SIZE

\* C5: each AlignmentBuffer has length at most W, and after k accepted
\* samples since the last reset it holds exactly the most recent min(k, W)
\* accepted samples in arrival order.
C5_WindowHoldsMostRecent ==
    /\ Len(dtw_trajectory.player_buffer) <= WINDOW_SIZE
    /\ Len(dtw_trajectory.ref_buffer) <= WINDOW_SIZE
    /\ dtw_trajectory.player_buffer =
          Recent(PlayerOf(accepted), Min(Len(accepted), WINDOW_SIZE))
    /\ dtw_trajectory.ref_buffer =
          Recent(RefOf(accepted), Min(Len(accepted), WINDOW_SIZE))

\* more than W samples were accepted, the evicted one differing from those
\* kept and those kept from each other
C5_OldestEvicted ==
    /\ Len(accepted) > WINDOW_SIZE
    /\ \A i \in DOMAIN dtw_trajectory.player_buffer :
          dtw_trajectory.player_buffer[i] # accepted[1].p
    /\ dtw_trajectory.player_buffer[1]
          # dtw_trajectory.player_buffer[Len(dtw_trajectory.player_buffer)]

\* the shapes of a well-formed result: a score, or the failure record
Subscores == 0..Milli
IsScore(r) ==
    /\ DOMAIN r = {"final", "pose", "trajectory", "rhythm", "grade", "ok",
                   "trajectory_valid", "dtw_cost"}
    /\ r.ok = TRUE
    /\ r.final \in Subscores /\ r.pose \in Subscores
    /\ r.trajectory \in Subscores /\ r.rhythm \in Subscores
    /\ r.grade \in {"Perfect", "Good", "OK", "Miss"}
    /\ r.trajectory_valid \in BOOLEAN
IsFailure(r) ==
    /\ DOMAIN r = {"ok", "error", "final", "pose", "trajectory", "rhythm",
                   "grade"}
    /\ r.ok = FALSE
    /\ r.final = 0 /\ r.pose = 0 /\ r.trajectory = 0 /\ r.rhythm = 0
    /\ r.grade = "Miss"
    /\ r.error \in STRING

\* C6: neither scoring entry raises to its caller: every call returns the
\* reset acknowledgment, a score with ok=true, or the failure record
\* (ok=false, final=pose=trajectory=rhythm=0, grade "Miss", an error string);
\* text that is not valid JSON, and on the direct entry JSON that is not an
\* object, yield the failure record.
C6_EntriesNeverRaise ==
    ScoringOp =>
        /\ result = ResetAck \/ IsScore(result) \/ IsFailure(result)
        /\ ~last_call.parsed => IsFailure(result)
        /\ (last_call.op = "process_unity_message" /\ ~last_call.is_object)
              => IsFailure(result)

\* the direct entry was given JSON that is not an object and answered with
\* the failure record
C6_NonObjectRejected ==
    /\ last_call.op = "process_unity_message"
    /\ last_call.parsed
    /\ ~last_call.is_object
    /\ IsFailure(result)

C8_ExtractionFailureKeepsBuffers ==
    (ScoringOp /\ last_call.no_hands /\ ~RecognisedRequest)
        => last_call.dtw_same

\* extraction failed on non-empty buffers and the call was scored
C8_FailedExtractionOnFilledBuffers ==
    /\ ScoringOp
    /\ last_call.no_hands
    /\ ~RecognisedRequest
    /\ result.ok
    /\ last_call.dtw_same
    /\ Len(dtw_trajectory.player_buffer) > 0
    /\ Len(dtw_trajectory.ref_buffer) > 0

\* C9: no element stored in any JointHistory (either stream, any joint) or
\* in either AlignmentBuffer has a non-finite component.
C9_NothingNonFiniteStored ==
    /\ \A s \in DOMAIN histories : \A j \in DOMAIN histories[s] :
          \A i \in DOMAIN histories[s][j] : AllFinite(histories[s][j][i])
    /\ \A i \in DOMAIN dtw_trajectory.player_buffer :
          AllFinite(dtw_trajectory.player_buffer[i])
    /\ \A i \in DOMAIN dtw_trajectory.ref_buffer :
          AllFinite(dtw_trajectory.ref_buffer[i])

\* C10: when the scoring calls of two sessions interleave, the result
\* returned to a session (its dtw_cost and trajectory included) and the
\* state it observes, AlignmentBuffers and JointHistory, are what they would
\* be had the other session made no calls.
C10_SessionsDoNotContaminate ==
    (ScoringOp /\ last_call.session \in Sessions)
        => /\ result = last_call.alone
           /\ State = sessions[last_call.session]

\* the perfect-match result
PerfectMatch(r) ==
    /\ IsScore(r)
    /\ r.trajectory_valid
    /\ r.dtw_cost = 0
    /\ r.trajectory = Milli
    /\ r.pose = Milli
    /\ r.rhythm >= 990
    /\ r.final >= 850
    /\ r.grade = "Perfect"

GrownFrom(old, new) ==
    \/ new = old
    \/ /\ Len(old) < WINDOW_SIZE
       /\ Len(new) = Len(old) + 1
       /\ SubSeq(new, 1, Len(old)) = old
    \/ /\ Len(old) = WINDOW_SIZE
       /\ Len(new) = WINDOW_SIZE
       /\ SubSeq(new, 1, WINDOW_SIZE - 1) = Tail(old)

\* C12: across any call that is not an explicit reset, scoring or add_frame,
\* successful or failing, no JointHistory and no AlignmentBuffer loses
\* content other than by oldest-first eviction at capacity.
C12_OnlyGrowOrEvict ==
    [][(/\ last_call'.op \notin {"reset_state", "reset_adapter_state"}
        /\ result' # ResetAck)
          => /\ GrownFrom(dtw_trajectory.player_buffer,
                          dtw_trajectory'.player_buffer)
             /\ GrownFrom(dtw_trajectory.ref_buffer, dtw_trajectory'.ref_buffer)
             /\ \A s \in DOMAIN histories : \A j \in DOMAIN histories[s] :
                   /\ j \in DOMAIN histories'[s]
                   /\ GrownFrom(histories[s][j], histories'[s][j])]_vars

\* a failing call evicted from a full structure
C12_FailingCallEvicted ==
    /\ ScoringOp
    /\ result.ok = FALSE
    /\ last_call.evicted

\* old with pos appended, the oldest dropped beyond the capacity W
Pushed(old, pos) ==
    IF Len(old) + 1 > WINDOW_SIZE THEN Tail(old) \o <<pos>> ELSE old \o <<pos>>

\* C13: for each recognised bone of a raw frame, adapt_mocopi_frame appends
\* the bone's position to the stream's JointHistory of the joint, emits in
\* trajectories[joint] the entire current history of the joint (ending with
\* the new position) and in rotations[joint] the bone's rotation.
C13_AdapterEmitsWholeHistory ==
    [][(last_call'.op = "adapt_mocopi_frame" /\ ~Raised(result'))
         => \A i \in DOMAIN BonesOf(last_call'.frame) :
              LET bone  == BonesOf(last_call'.frame)[i]
                  joint == JointOf(bone[1])
                  old   == Get(histories[last_call'.stream], joint, <<>>)
              IN  Usable(bone) =>
                    /\ joint \in DOMAIN histories'[last_call'.stream]
                    /\ histories'[last_call'.stream][joint]
                          = Pushed(old, bone[2].d.pos_xyz)
                    /\ joint \in DOMAIN result'.trajectories
                    /\ result'.trajectories[joint]
                          = histories'[last_call'.stream][joint]
                    /\ joint \in DOMAIN result'.rotations
                    /\ result'.rotations[joint] = bone[2].d.rot_xyzw]_vars

\* the adapter emitted a history longer than the new sample, for both hands
C13_EmittedLongHistory ==
    /\ last_call.op = "adapt_mocopi_frame"
    /\ ~Raised(result)
    /\ DOMAIN result.trajectories = {"LeftHand", "RightHand"}
    /\ Len(result.trajectories.LeftHand) >= 2
    /\ result.trajectories.LeftHand[1] # result.trajectories.LeftHand[2]

\* C14: after any sequence of adapt_mocopi_frame calls with capacity W, every
\* joint history of every stream has length at most W and holds the most
\* recent min(k, W) positions appended for the joint since the last reset,
\* in arrival order.
C14_HistoryHoldsMostRecent ==
    \A s \in DOMAIN histories :
        /\ DOMAIN histories[s] = DOMAIN last_call.log[s]
        /\ \A j \in DOMAIN histories[s] :
              /\ Len(histories[s][j]) <= WINDOW_SIZE
              /\ histories[s][j] =
                    Recent(last_call.log[s][j],
                           Min(Len(last_call.log[s][j]), WINDOW_SIZE))

\* more than W positions were appended for a joint, the evicted one
\* differing from the oldest kept
C14_HistoryEvictedOldest ==
    \E s \in DOMAIN histories : \E j \in DOMAIN histories[s] :
        /\ Len(last_call.log[s][j]) > WINDOW_SIZE
        /\ last_call.log[s][j][1] # histories[s][j][1]

\* C15: a bone that is not in the recognised set is ignored by the adapter:
\* it raises no error, produces no entry in rotations or trajectories and
\* leaves every JointHistory unchanged, while the recognised bones of the
\* frame are processed as in the frame without it.
C15_UnrecognisedBonesIgnored ==
    last_call.op = "adapt_mocopi_frame" =>
        /\ Raised(result) = last_call.without.raised
        /\ histories = last_call.without.histories
        /\ \A s \in DOMAIN histories :
              \A j \in DOMAIN histories[s] :
                 \E b \in RecognisedBones : j = JointOf(b)
        /\ ~Raised(result) =>
              /\ result = last_call.without.out
              /\ \A j \in DOMAIN result.rotations \cup DOMAIN result.trajectories :
                    \E b \in RecognisedBones : j = JointOf(b)

\* a frame with unrecognised bones, one of them not an object, was adapted
\* and its hand stored
C15_UnknownBonesSkipped ==
    /\ last_call.op = "adapt_mocopi_frame"
    /\ \E i \in DOMAIN BonesOf(last_call.frame) :
          /\ BonesOf(last_call.frame)[i][1] \notin RecognisedBones
          /\ BonesOf(last_call.frame)[i][2].t # "dict"
    /\ ~Raised(result)
    /\ "LeftHand" \in DOMAIN result.rotations
    /\ ~last_call.hist_same

\* C16: reset_adapter_state, called at any point, empties the JointHistory
\* of all streams and leaves both AlignmentBuffers unchanged.
C16_AdapterResetClearsHistoriesOnly ==
    last_call.op = "reset_adapter_state" =>
        /\ histories = EmptyHistories
        /\ last_call.dtw_same

\* the adapter was reset with both histories and both buffers filled
C16_AdapterResetMidSession ==
    /\ last_call.op = "reset_adapter_state"
    /\ ~last_call.hist_same
    /\ Len(dtw_trajectory.player_buffer) > 0
    /\ Len(dtw_trajectory.ref_buffer) > 0

\* the decoder's failure: the ValueError raised by read_box and the parsers
DecodeError == Raise("ValueError")

\* C17: decoding fails with a DecodeError, with no partial result and nothing
\* cached, whenever a box the decoder reaches is truncated (fewer than 8
\* header bytes at its offset, or a declared length beyond the bytes left),
\* at the top level or nested at any depth.
C17_TruncatedBoxIsDecodeError ==
    (last_call.op = "receive"
        /\ last_call.datagram.fault \in {"header", "length"}) =>
        /\ result = DecodeError
        /\ skeleton_cache = last_call.cached
C17_TruncatedDeepInSkeleton ==
    /\ last_call.op = "receive"
    /\ last_call.datagram.fault = "length"
    /\ last_call.datagram.depth >= 2
    /\ last_call.datagram.third = "skdf"
    /\ result = DecodeError
    /\ DOMAIN last_call.cached # {}

\* C18: decoding fails with a DecodeError whenever a mandatory field is
\* absent (a bndt without bnid or without pbid, a btdt without bnid or
\* without tran) or a tran payload is shorter than 28 bytes; a bndt without
\* tran decodes, its bone having no rest transform.
C18_MissingMandatoryFieldIsDecodeError ==
    last_call.op = "receive" =>
        /\ last_call.datagram.fault \in {"missing", "short_tran"} =>
               result = DecodeError
        /\ (last_call.datagram.fault = "none"
                /\ last_call.datagram.third = "skdf") =>
               /\ ~Raised(result)
               /\ \A i \in DOMAIN result.bones :
                      (result.bones[i].rest = NoTransform)
                          <=> (result.bones[i].bone_id
                                  \in last_call.datagram.bare)
C18_RejectedAfterBareBoneCached ==
    /\ last_call.op = "receive"
    /\ last_call.datagram.fault = "missing"
    /\ last_call.datagram.where = "bndt.pbid"
    /\ result = DecodeError
    /\ \E id \in DOMAIN skeleton_cache :
          skeleton_cache[id].rest = NoTransform

\* the datagram of the last turn has three whole top-level boxes, the third
\* tagged neither skdf nor fram
UnknownThirdTag ==
    /\ last_call.op = "receive"
    /\ last_call.datagram.third = "other"
    /\ last_call.datagram.fault = "none" \/ last_call.datagram.depth >= 1
IsUnknown(res) == ~Raised(res) /\ res.type = "unknown"

\* C19 as stated: a packet of three consecutive boxes whose third tag is
\* neither skdf nor fram decodes to an "unknown" result and never to an
\* error, whatever the payloads of the boxes contain.
C19_UnknownTagNeverAnError ==
    UnknownThirdTag => IsUnknown(result)

\* C19 amended: such a packet decodes to an "unknown" result whatever the
\* payload of its third box contains, provided the payloads of its first
\* two boxes are whole sequences of boxes.
C19_UnknownTagWithWholeHeadAndInfo ==
    (UnknownThirdTag /\ last_call.datagram.fault = "none") =>
        IsUnknown(result)
C19_UnknownWithUnreadablePayload ==
    /\ UnknownThirdTag
    /\ IsUnknown(result)
    /\ result.payload_len > 8
    /\ iter_boxes(SubSeq(last_call.datagram.bytes,
                         Len(last_call.datagram.bytes)
                             - result.payload_len + 1,
                         Len(last_call.datagram.bytes))).raised

\* C20: after a skeleton (skdf) packet is processed the cache contains
\* exactly the bones of that packet: a bone cached from an earlier skeleton
\* packet and absent from the new one is no longer cached.
C20_CacheReplacedWholesale ==
    (last_call.op = "receive" /\ ~Raised(result)
        /\ result.type = "skeleton") =>
        DOMAIN skeleton_cache = last_call.datagram.ids

\* C21: a decode error is fatal to its packet only: after a datagram fails
\* to decode the ingest loop is still running and the skeleton cache is
\* unchanged; the loop goes on to receive every later datagram
\* (MaxDatagrams in all), and the cache and each decoded packet are those of a loop the
\* failing datagrams never reached.
C21_DecodeErrorFatalToItsPacketOnly ==
    /\ []((last_call.op = "receive" /\ Raised(result)) =>
            (listening /\ skeleton_cache = last_call.cached))
    /\ [](last_call.op = "receive" =>
            /\ skeleton_cache = last_call.unfaulted.cache
            /\ last_call.datagram.fault = "none" =>
                   result = last_call.unfaulted.pkt)
    /\ (last_call.op = "receive" /\ Raised(result))
          ~> (calls = MaxDatagrams /\ last_call.op = "receive")
C21_SkeletonStoredAfterFailedDatagram ==
    /\ last_call.op = "receive"
    /\ ~Raised(result)
    /\ result.type = "skeleton"
    /\ last_call.unfaulted.dropped >= 1
    /\ DOMAIN last_call.cached # {}
    /\ skeleton_cache # last_call.cached

\* the instance compute() was last called on, its length, and the offset
\* by which its reference buffer is its player buffer moved, if any
Inst == last_call.instance
InstLen == Len(Inst.player_buffer)
NoBig(pb) == \A i \in DOMAIN pb : \A c \in DOMAIN pb[i] : pb[i][c] # Big
OffsetBy(off) ==
    /\ last_call.op = "compute"
    /\ InstLen >= 1
    /\ NoBig(Inst.player_buffer)
    /\ Inst.ref_buffer = Shifted(Inst.player_buffer, off)
Magnitude(off) == Dist(off, <<0, 0>>)
IsSteady(pb) == \A i \in DOMAIN pb : pb[i] = pb[1]
IdenticalCostZero ==
    (last_call.op = "compute" /\ Inst.ref_buffer = Inst.player_buffer
        /\ InstLen <= 2 * Inst.band + 1) => result.cost = 0

\* C22 as stated: identical buffered sequences of length n <= 2*band+1
\* yield cost 0, and a sequence that is the other plus a constant offset of
\* magnitude d yields the length-normalised cost d.
C22_OffsetCostIsOffset ==
    /\ IdenticalCostZero
    /\ \A off \in Offsets :
          (OffsetBy(off) /\ InstLen <= 2 * Inst.band + 1) =>
              result.cost = Magnitude(off)

\* C22 amended: identical sequences yield cost 0; with a constant offset of
\* magnitude d the length-normalised cost is at most d, and is d when
\* n <= 2 or when all frames of the sequence are equal.
C22_OffsetCostAtMostOffset ==
    /\ IdenticalCostZero
    /\ \A off \in Offsets :
          (OffsetBy(off) /\ InstLen <= 2 * Inst.band + 1) =>
              /\ result.cost <= Magnitude(off)
              /\ (InstLen <= 2 \/ IsSteady(Inst.player_buffer)) =>
                     result.cost = Magnitude(off)
C22_MovingOffsetCostsLess ==
    /\ OffsetBy(<<3, 0>>)
    /\ InstLen = 3
    /\ Inst.band = Band
    /\ result.cost > 0
    /\ result.cost < Magnitude(<<3, 0>>)

\* C23: in every scored result the grade is the threshold function of
\* final with inclusive lower bounds: Perfect when final >= 0.85, Good when
\* 0.70 <= final < 0.85, OK when 0.50 <= final < 0.70, Miss otherwise; a
\* final exactly on a threshold gets the higher grade.
C23_GradeIsThresholdOfFinal ==
    last_call.op = "fuse" =>
        /\ result.ok
        /\ (result.grade = "Perfect") <=> (result.final >= 850)
        /\ (result.grade = "Good") <=>
               (700 <= result.final /\ result.final < 850)
        /\ (result.grade = "OK") <=>
               (500 <= result.final /\ result.final < 700)
        /\ (result.grade = "Miss") <=> (result.final < 500)
C23_FinalOnThreshold ==
    /\ last_call.op = "fuse"
    /\ result.final = 850
    /\ result.grade = "Perfect"
    /\ result.pose = 1000
    /\ result.rhythm = 250

\* the joints of the weight table present in both rotation maps of the
\* last call to compute_pose_score
SharedWeighted ==
    (DOMAIN JOINT_WEIGHTS \cap DOMAIN last_call.rotations.player)
        \cap DOMAIN last_call.rotations.ref

\* C24: the pose score is exactly 0.0 whenever no joint of the weight table
\* is present in both the performer's and the reference's rotation maps
\* (also when either map is empty), whatever other joints the maps contain.
C24_NoSharedWeightedJointScoresZero ==
    (last_call.op = "compute_pose_score" /\ SharedWeighted = {}) =>
        result = [pose |-> 0]
C24_DisjointWeightedJoints ==
    /\ last_call.op = "compute_pose_score"
    /\ SharedWeighted = {}
    /\ "Hips" \in DOMAIN last_call.rotations.player
    /\ "LeftHand" \in DOMAIN last_call.rotations.ref
    /\ "Nose" \in DOMAIN last_call.rotations.player
    /\ "Nose" \in DOMAIN last_call.rotations.ref
    /\ Len(last_call.rotations.ref["Nose"]) # 4
    /\ result = [pose |-> 0]

\* The full-matrix banded recurrence over buffers pb and rb of length n with
\* band radius B, row by row: dp[0][0] = 0, every other border cell and
\* every cell outside the band infinite, dp[i][j] = cost(i, j) +
\* min(dp[i][j-1], dp[i-1][j], dp[i-1][j-1]) inside it.  rows holds the
\* rows 0..i-1 (rows[k + 1] is row k, a function on 0..n).
RECURSIVE FullRow(_, _, _, _, _, _, _)
FullRow(pb, rb, B, i, j, above, row) ==
    IF j > Len(pb) THEN row
    ELSE FullRow(pb, rb, B, i, j + 1, above,
             [row EXCEPT ![j] =
                 IF j < i - B \/ j > i + B THEN Inf
                 ELSE AddF(Dist(pb[i], rb[j]),
                           Min3(row[j - 1], above[j], above[j - 1]))])
RECURSIVE FullMatrix(_, _, _, _, _)
FullMatrix(pb, rb, B, i, rows) ==
    IF i > Len(pb) THEN rows
    ELSE FullMatrix(pb, rb, B, i + 1,
             Append(rows, FullRow(pb, rb, B, i, 1, rows[i],
                                  [k \in 0..Len(pb) |-> Inf])))
FullCost(pb, rb, B) ==
    LET n == Len(pb)
        dp == FullMatrix(pb, rb, B, 1,
                         <<[k \in 0..n |-> IF k = 0 THEN 0 ELSE Inf]>>)
        last == dp[n + 1][n]
    IN IF n = 0 THEN 0
       ELSE IF last = Inf THEN Inf ELSE last \div n
InstFullCost == FullCost(Inst.player_buffer, Inst.ref_buffer, Inst.band)

BothFeaturesValid == ScoringOp /\ last_call.fed # <<>>
BufferLengthsAreValidCalls ==
    /\ Len(dtw_trajectory.player_buffer) = Min(WINDOW_SIZE, Len(accepted))
    /\ Len(dtw_trajectory.ref_buffer) = Min(WINDOW_SIZE, Len(accepted))
\* the newest buffered pair is the latest hand positions of the call's inputs
NewestIsLatestHands ==
    LET n == Len(dtw_trajectory.player_buffer)
    IN  /\ n > 0
        /\ last_call.op = "process_unity_message"
              => /\ ~last_call.no_hands
                 /\ dtw_trajectory.player_buffer[n] = last_call.latest.p
                 /\ dtw_trajectory.ref_buffer[n] = last_call.latest.r

FiniteFeatures(buf) == \A i \in DOMAIN buf : AllFinite(buf[i])
C27_FallbackNeverTaken ==
    (/\ last_call.op = "compute"
     /\ InstLen >= 1
     /\ FiniteFeatures(Inst.player_buffer)
     /\ FiniteFeatures(Inst.ref_buffer))
        => /\ InstFullCost # Inf
           /\ (InstLen >= 2 /\ result.cost = 0) => InstFullCost = 0

\* the buffers without their newest pair
BeforeNewest(dtw) ==
    [player_buffer |-> SubSeq(dtw.player_buffer, 1, Len(dtw.player_buffer) - 1),
     ref_buffer    |-> SubSeq(dtw.ref_buffer, 1, Len(dtw.ref_buffer) - 1)]

\* C28: in every result returned with ok=true that is not a reset
\* acknowledgment, dtw_cost is null exactly when trajectory_valid is false;
\* when trajectory_valid is true, dtw_cost is the cost of the buffers after
\* the current frame was appended: the frame the call fed is their newest
\* pair.
C28_CostNullIffInvalidElseOverNewFrame ==
    (ScoringOp /\ IsScore(result)) =>
        /\ (result.dtw_cost = None) <=> (result.trajectory_valid = FALSE)
        /\ result.trajectory_valid =>
              LET n == Len(dtw_trajectory.player_buffer)
              IN  /\ Len(last_call.fed) = 1
                  /\ n >= 1
                  /\ dtw_trajectory.player_buffer[n] = Stored(last_call.fed[1]).p
                  /\ dtw_trajectory.ref_buffer[n] = Stored(last_call.fed[1]).r
                  /\ result.dtw_cost = Compute(dtw_trajectory, Band)
        /\ ~result.trajectory_valid => last_call.fed = <<>>

\* a scored call on a full window whose cost is not the cost the buffers had
\* without the frame it fed
C28_NewFrameChangedCost ==
    /\ ScoringOp
    /\ IsScore(result)
    /\ result.trajectory_valid
    /\ Len(accepted) > WINDOW_SIZE
    /\ result.dtw_cost # Compute(BeforeNewest(dtw_trajectory), Band)
    /\ result.dtw_cost > 0

\* C29: every successful, non-reset result of raw-protocol scoring has
\* rhythm subscore exactly 0.5, whatever raw frames came before, and its
\* final score never exceeds 0.9.
C29_RawRhythmIsNeutral ==
    (last_call.op = "process_mocopi_message" /\ IsScore(result))
        => /\ result.rhythm = 500
           /\ result.final <= 900

\* a raw-protocol call scored at the ceiling: pose and trajectory both 1.0
C29_RawResultAtCeiling ==
    /\ last_call.op = "process_mocopi_message"
    /\ IsScore(result)
    /\ result.pose = Milli
    /\ result.trajectory = Milli
    /\ result.final = 900
    /\ Len(dtw_trajectory.player_buffer) = WINDOW_SIZE

OtherStream(stream) == IF stream = "player" THEN "ref" ELSE "player"

\* C30: adapt_mocopi_frame called for the stream "player" or "ref" changes
\* that stream's JointHistory only: the other stream's history and both
\* AlignmentBuffers stay as they were; called with any other stream name it
\* fails with an error and changes no history.
C30_AdapterTouchesOwnStreamOnly ==
    [][last_call'.op = "adapt_mocopi_frame" =>
          /\ dtw_trajectory' = dtw_trajectory
          /\ IF last_call'.stream \in {"player", "ref"}
             THEN histories'[OtherStream(last_call'.stream)]
                      = histories[OtherStream(last_call'.stream)]
             ELSE Raised(result') /\ histories' = histories]_vars

\* the adapter appended to the reference history while the performer history
\* and the buffers were filled
C30_RefAdaptedBesideFilledPlayer ==
    /\ last_call.op = "adapt_mocopi_frame"
    /\ last_call.stream = "ref"
    /\ ~Raised(result)
    /\ ~last_call.hist_same
    /\ histories["player"] # EmptyDict
    /\ histories["player"] # histories["ref"]
    /\ Len(dtw_trajectory.player_buffer) > 0

Iterating == last_call.op = "iter_boxes"
Running == Iterating /\ result.status = "running"
\* the length a box header at off declares
Declared(buf, off) == U32At(buf, off)
\* what one read_box did to the offset: it failed and left it, or moved it
\* past the 8 header bytes and the L declared bytes
ReadFailsOrAdvances ==
    (Running /\ result.off < Len(result.buf)) =>
        \/ result'.status = "raised" /\ result'.off = result.off
        \/ /\ result'.status = "running"
           /\ result'.off = result.off + 8 + Declared(result.buf, result.off)
           /\ result'.off >= result.off + 8
           /\ result'.off <= Len(result.buf)
           /\ Len(result'.boxes) = Len(result.boxes) + 1

\* C31: decoding terminates on every finite byte buffer: each read_box
\* fails or advances the offset by 8 + L >= 8 bytes, also for a box of
\* length 0, so iterating the boxes of a payload reaches the end of the
\* payload or a DecodeError after finitely many steps.
C31_DecodingTerminates ==
    /\ [][ReadFailsOrAdvances]_vars
    /\ Running ~> (Iterating /\ result.status \in {"ended", "raised"})

\* the iterator reached the end of a payload holding boxes of length 0
C31_EndedPastEmptyBoxes ==
    /\ Iterating
    /\ result.status = "ended"
    /\ result.off = Len(result.buf)
    /\ Len(result.boxes) >= 3
    /\ \E i \in DOMAIN result.boxes : result.boxes[i][2] = <<>>
    /\ \E i \in DOMAIN result.boxes : result.boxes[i][2] # <<>>

====
